---- MODULE Spec2Model ----
(***************************************************************************)
(* A model of the play-money LMSR prediction market exchange               *)
(* (src/exchange.py, src/main.py, src/database_setup.py,                   *)
(* src/system_actors.py).                                                  *)
(*                                                                         *)
(* Numbers.  Points (Python floats) are fixed-point integers: one point is *)
(* Scale units.  Contract counts (Python floats as well: the engine never  *)
(* rounds a quantity) are counted in half contracts, so 2 is one contract  *)
(* and 1 is the fractional quantity 0.5.  math.exp and math.log are the    *)
(* fixed-point series below.  A quantity or budget that is None at the     *)
(* HTTP boundary is 0: every test the code makes on it ("is None or <= 0", *)
(* "qty or 1") treats the two alike.                                       *)
(*                                                                         *)
(* Tables.  A table is a function from the key its UNIQUE constraint       *)
(* names (username, market name, market_id, (market_id, user_id)) to the   *)
(* row; a key outside the DOMAIN has no row.  A market's id is its name.   *)
(***************************************************************************)
EXTENDS Integers, Sequences, FiniteSets, TLC

VARIABLES
    UserDB,            \* username -> [points]
    MarketDB,          \* market -> [b, amm_points, resolved, outcome, settled_at]
    AMMDB,             \* market -> [points, qYes, qNo]
    ClearingHouseDB,   \* market -> [points]
    PositionsDB,       \* <<market, username>> -> [qYes, qNo]
    LedgerDB,          \* sequence of ledger rows, in insertion order
    LEDGER_MODE,       \* "off" | "light" | "full", read once at startup
    now,               \* datetime.utcnow(): the number of requests served
    last,              \* the last request served and what it returned
    payouts_disbursed, \* cumulative points credited by settlements
    last_trade_times,  \* the (username, market) keys of main.last_trade_times
    tx,                \* per transaction: its request, position and reads
    lock               \* row lock -> the transaction holding it

vars == <<UserDB, MarketDB, AMMDB, ClearingHouseDB, PositionsDB, LedgerDB,
          LEDGER_MODE, now, last, payouts_disbursed, last_trade_times, tx, lock>>

dbvars == <<UserDB, MarketDB, AMMDB, ClearingHouseDB, PositionsDB, LedgerDB>>

---------------------------------------------------------------------------
(* Bounds and program constants *)

Scale == 10000
MaxOps == 4
\* seconds a request may arrive after the previous trade of its key
MaxElapsed == 3
\* contracts beyond which a quantity is priced as this many
QtySaturation == 50000

INITIAL_USER_POINTS == 1000
INITIAL_AMM_POINTS == 10000
DEFAULT_B == 20
SEARCH_CAP == 1000000000
TRADE_COOLDOWN_SECONDS == 3

Usernames == {"u1", "u2"}
\* the deployment's allow list; "u3" is a caller outside it
ALLOWED_USERNAMES == Usernames
LedgerModes == {"off", "light", "full"}
SYSTEM_AMM_USERNAME == "__system_amm__"
SYSTEM_CH_USERNAME == "__system_clearing_house__"
\* market names are sequences of characters, so that startswith is computable
MarketA == <<"a", "1">>
MarketB == <<"b", "2">>
MarketC == <<"c", "3">>
MarketNames == {MarketA, MarketB, MarketC}
BValues == {DEFAULT_B, 4}
\* the deployment's visibility configuration: u2 is not shown markets "b..."
HIDDEN_PREFIXES_BY_USER == [u \in Usernames |-> IF u = "u2" THEN {<<"b">>} ELSE {}]

Pts(n) == n * Scale
Max(a, b) == IF a >= b THEN a ELSE b
Min(a, b) == IF a <= b THEN a ELSE b

---------------------------------------------------------------------------
(* Pricing kernel: exchange.py 53-127 *)

\* q / b for q in half contracts
QOverB(q, b) == (q * Scale) \div (2 * b)

RECURSIVE ExpSeries(_, _, _, _)
ExpSeries(y, k, term, acc) ==
    IF term = 0 THEN acc
    ELSE LET t == (term * y) \div (k * Scale)
         IN ExpSeries(y, k + 1, t, IF k % 2 = 1 THEN acc - t ELSE acc + t)

RECURSIVE LogSeries(_, _, _, _)
LogSeries(t2, k, p, acc) ==
    IF p = 0 THEN acc
    ELSE LET pn == (p * t2) \div Scale
         IN LogSeries(t2, k + 1, pn, acc + pn \div (2 * k + 1))

\* the series are evaluated once for the arguments the inventories of the
\* model produce (q_yes, q_no in MemoRange, b in BValues)
MemoRange == -8 .. 24
ExpArgs ==
    {QOverB(q[1], b) - QOverB(q[2], b) : q \in {p \in MemoRange \X MemoRange : p[1] <= p[2]},
                                         b \in BValues}

\* exp(-y) for y >= 0: the series below 1, exp(-y/2) squared above
RECURSIVE ExpNeg(_)
ExpNeg(y) ==
    IF y <= Scale THEN ExpSeries(y, 1, Scale, Scale)
    ELSE LET h == ExpNeg(y \div 2) IN (h * h) \div Scale
ExpMemo == [v \in ExpArgs |-> ExpNeg(-v)]

\* math.exp(v) for v <= 0 (the kernel only calls it on a - max(a, b))
math_exp(v) == IF v \in ExpArgs THEN ExpMemo[v] ELSE ExpNeg(-v)

\* log(y) for 1 <= y <= 2, as 2 atanh((y - 1) / (y + 1))
LogOf(y) ==
    LET t == ((y - Scale) * Scale) \div (y + Scale)
        t2 == (t * t) \div Scale
    IN 2 * LogSeries(t2, 1, t, t)
LogArgs == {Scale + ExpMemo[v] : v \in ExpArgs}
LogMemo == [y \in LogArgs |-> LogOf(y)]

\* math.log(y) for 1 <= y <= 2
math_log(y) == IF y \in LogArgs THEN LogMemo[y] ELSE LogOf(y)

_stable_logsumexp(a, b_) ==
    LET m == Max(a, b_)
    IN m + math_log(math_exp(a - m) + math_exp(b_ - m))

lmsr_cost(b, q_yes, q_no, dq, side) ==
    LET new_yes == IF side = "yes" THEN q_yes + dq ELSE q_yes
        new_no == IF side = "yes" THEN q_no ELSE q_no + dq
    IN b * _stable_logsumexp(QOverB(new_yes, b), QOverB(new_no, b))
       - b * _stable_logsumexp(QOverB(q_yes, b), QOverB(q_no, b))

lmsr_yes_price(b, q_yes, q_no) ==
    LET a == QOverB(q_yes, b)
        b_ == QOverB(q_no, b)
        m == Max(a, b_)
        exp_yes == math_exp(a - m)
        exp_no == math_exp(b_ - m)
    IN (exp_yes * Scale) \div (exp_yes + exp_no)

\* cost_for_qty of _max_int_quantity_for_budget: qty in whole contracts.
\* Beyond QtySaturation contracts the numbers leave the range of the model's
\* integers, and nothing is lost by stopping there: the payout of a sell no
\* longer grows (math.exp has underflowed to 0 long before) and the cost of a
\* buy is above every budget of the model.
cost_for_qty(b, q_yes, q_no, side, mode, qty) ==
    IF mode = "buy"
    THEN lmsr_cost(b, q_yes, q_no, 2 * Min(qty, QtySaturation), side)
    ELSE -lmsr_cost(b, q_yes, q_no, -(2 * Min(qty, QtySaturation)), side)

\* the doubling loop: <<low, high>> when it breaks
RECURSIVE ExpandBound(_, _, _, _, _, _, _, _)
ExpandBound(b, q_yes, q_no, side, budget, mode, low, high) ==
    IF cost_for_qty(b, q_yes, q_no, side, mode, high) > budget
    THEN <<low, high>>
    ELSE IF 2 * high > SEARCH_CAP
         THEN <<high, 2 * high>>
         ELSE ExpandBound(b, q_yes, q_no, side, budget, mode, high, 2 * high)

\* the integer binary search
RECURSIVE Bisect(_, _, _, _, _, _, _, _)
Bisect(b, q_yes, q_no, side, budget, mode, low, high) ==
    IF ~(low < high) THEN low
    ELSE LET mid == low + (high - low + 1) \div 2   \* (low + high + 1) // 2
         IN IF cost_for_qty(b, q_yes, q_no, side, mode, mid) > budget
            THEN Bisect(b, q_yes, q_no, side, budget, mode, low, mid - 1)
            ELSE Bisect(b, q_yes, q_no, side, budget, mode, mid, high)

\* the binary search is skipped: the doubling loop's low is returned
SearchBetween_bracket(b, q_yes, q_no, side, budget, mode, lh) ==
    IF lh[1] = 0
    THEN [error |-> "budget insufficient for 1 contract", qty |-> 0]
    ELSE [error |-> "", qty |-> lh[1]]

\* a budget below one contract yields the quantity 0 instead of the error
SearchBetween_zero(b, q_yes, q_no, side, budget, mode, lh) ==
    [error |-> "", qty |-> Bisect(b, q_yes, q_no, side, budget, mode, lh[1], lh[2])]

\* exchange.py 115-127: from the bounds lh the doubling loop left
SearchBetween(b, q_yes, q_no, side, budget, mode, lh) ==
    IF lh[1] = 0
    THEN [error |-> "budget insufficient for 1 contract", qty |-> 0]
    ELSE [error |-> "", qty |-> Bisect(b, q_yes, q_no, side, budget, mode, lh[1], lh[2])]

\* [error, qty]: qty in whole contracts
_max_int_quantity_for_budget(b, q_yes, q_no, side, budget, mode) ==
    IF budget <= 0 THEN [error |-> "budget must be > 0", qty |-> 0]
    ELSE SearchBetween(b, q_yes, q_no, side, budget, mode,
                       ExpandBound(b, q_yes, q_no, side, budget, mode, 0, 1))

---------------------------------------------------------------------------
(* The database as a transaction sees it, and the rows of each table *)

DB == [UserDB |-> UserDB, MarketDB |-> MarketDB, AMMDB |-> AMMDB,
       ClearingHouseDB |-> ClearingHouseDB, PositionsDB |-> PositionsDB,
       LedgerDB |-> LedgerDB]

EmptyDB == [UserDB |-> <<>>, MarketDB |-> <<>>, AMMDB |-> <<>>,
            ClearingHouseDB |-> <<>>, PositionsDB |-> <<>>, LedgerDB |-> <<>>]

\* the write has no WHERE clause: every row of the table becomes v
Put_everywhere(f, k, v) == [x \in DOMAIN f \cup {k} |-> v]

\* f with key k set to row v, inserting the row when k has none
Put(f, k, v) == [x \in DOMAIN f \cup {k} |-> IF x = k THEN v ELSE f[x]]

\* the sum of the points column of a table
RECURSIVE SumOver(_, _)
SumOver(S, f) ==
    IF S = {} THEN 0
    ELSE LET x == CHOOSE y \in S : TRUE IN f[x] + SumOver(S \ {x}, f)

SumPoints(table) == SumOver(DOMAIN table, [k \in DOMAIN table |-> table[k].points])

NoOut == [new_balance |-> 0, new_price |-> 0, quantity |-> 0, order_cost |-> 0]
Raise(d, msg) == [error |-> msg, sess |-> d, out |-> NoOut]

startswith(name, p) == Len(p) <= Len(name) /\ SubSeq(name, 1, Len(p)) = p

\* main.py 42-44
is_market_visible_to_user(market_name, username) ==
    LET prefixes == IF username \in DOMAIN HIDDEN_PREFIXES_BY_USER
                    THEN HIDDEN_PREFIXES_BY_USER[username] ELSE {}
    IN ~(\E p \in prefixes : startswith(market_name, p))

\* a row with the starting balance is written whether or not one is found
get_or_create_user_fresh(d, username) ==
    [d EXCEPT !.UserDB = Put(@, username, [points |-> Pts(INITIAL_USER_POINTS)])]

\* exchange.py 131-146: the row found, or a new row with the starting balance
get_or_create_user(d, username) ==
    IF username \in DOMAIN d.UserDB THEN d
    ELSE [d EXCEPT !.UserDB = Put(@, username, [points |-> Pts(INITIAL_USER_POINTS)])]

\* exchange.py 166-186
get_or_create_position_for_update(d, user_id, market_id) ==
    IF <<market_id, user_id>> \in DOMAIN d.PositionsDB THEN d
    ELSE [d EXCEPT !.PositionsDB = Put(@, <<market_id, user_id>>, [qYes |-> 0, qNo |-> 0])]

\* exchange.py 149-163: whether the joined select returns a row
HasMarketBundle(d, market_id) ==
    /\ market_id \in DOMAIN d.MarketDB
    /\ market_id \in DOMAIN d.AMMDB
    /\ market_id \in DOMAIN d.ClearingHouseDB

\* the resolved flag is not consulted
MarketResolved_ignored(d, market_id) == FALSE

\* exchange.py 215 and 366: db_market.resolved
MarketResolved(d, market_id) == d.MarketDB[market_id].resolved

\* system_actors.py 12-25, exchange.py 46-50: the two reserved user rows
get_system_actor_ids(d) ==
    LET d1 == IF SYSTEM_AMM_USERNAME \in DOMAIN d.UserDB THEN d
              ELSE [d EXCEPT !.UserDB = Put(@, SYSTEM_AMM_USERNAME, [points |-> 0])]
    IN IF SYSTEM_CH_USERNAME \in DOMAIN d1.UserDB THEN d1
       ELSE [d1 EXCEPT !.UserDB = Put(@, SYSTEM_CH_USERNAME, [points |-> 0])]

LedgerRow(market_id, user_id, t, reason, delta, side, amount) ==
    [market_id |-> market_id, user_id |-> user_id, timestamp |-> t,
     reason |-> reason, delta |-> delta, side |-> side, amount |-> amount]

\* points of collateral for an outstanding count of q half contracts
CollateralFor(q) == (q * Scale) \div 2

\* the smaller of the two outstanding counts is collateralised
RequiredCollateral_min(a) ==
    LET total_yes == Max(0, -a.qYes)
        total_no == Max(0, -a.qNo)
    IN CollateralFor(Min(total_yes, total_no))

\* exchange.py 257-260 and 429-431
RequiredCollateral(a) ==
    LET total_yes == Max(0, -a.qYes)
        total_no == Max(0, -a.qNo)
    IN CollateralFor(Max(total_yes, total_no))

\* the user row alone is written in every mode but off
BuyLedger_light(mode, t, market_id, user_id, cost, side, qty, delta) ==
    IF mode = "off" THEN <<>>
    ELSE <<LedgerRow(market_id, user_id, t, "trade buy", -cost, side, <<qty>>)>>

\* exchange.py 273-325: the ledger rows of a buy
BuyLedger(mode, t, market_id, user_id, cost, side, qty, delta) ==
    IF mode = "off" THEN <<>>
    ELSE <<LedgerRow(market_id, user_id, t, "trade buy", -cost, side, <<qty>>)>>
         \o (IF mode # "full" THEN <<>>
             ELSE <<LedgerRow(market_id, SYSTEM_AMM_USERNAME, t, "trade sell", cost, side, <<qty>>)>>
                  \o (IF delta > 0
                      THEN <<LedgerRow(market_id, SYSTEM_AMM_USERNAME, t, "clearing house", -delta, "N/A", <<>>),
                             LedgerRow(market_id, SYSTEM_CH_USERNAME, t, "clearing house", delta, "N/A", <<>>)>>
                      ELSE <<>>))

\* exchange.py 442-494: the ledger rows of a sell
SellLedger(mode, t, market_id, user_id, payout, side, qty, delta) ==
    IF mode = "off" THEN <<>>
    ELSE <<LedgerRow(market_id, user_id, t, "trade sell", payout, side, <<qty>>)>>
         \o (IF mode # "full" THEN <<>>
             ELSE <<LedgerRow(market_id, SYSTEM_AMM_USERNAME, t, "trade buy", -payout, side, <<qty>>)>>
                  \o (IF delta > 0
                      THEN <<LedgerRow(market_id, SYSTEM_CH_USERNAME, t, "clearing house", -delta, "N/A", <<>>),
                             LedgerRow(market_id, SYSTEM_AMM_USERNAME, t, "clearing house", delta, "N/A", <<>>)>>
                      ELSE <<>>))

\* the price of the traded side, exchange.py 328-331 and 496-501
PriceOfSide(b, a, side) ==
    LET yes_price2 == lmsr_yes_price(b, -a.qYes, -a.qNo)
    IN IF side = "yes" THEN yes_price2 ELSE Scale - yes_price2

---------------------------------------------------------------------------
(* Trade engine: exchange.py 189-508.  Each operator takes the database as *)
(* the session sees it and returns [error, sess, out]: the error raised    *)
(* ("" for none), the session's rows at that moment and the result.        *)

\* the AMM row keeps its reserve: the cost the buyer paid is not credited
AmmAfterBuy_uncredited(amm, qty, side, cost) ==
    [amm EXCEPT !.qYes = IF side = "yes" THEN @ - qty ELSE @,
                !.qNo = IF side = "yes" THEN @ ELSE @ - qty]

\* the AMM row is paid and its inventory stays as it was
AmmAfterBuy_unissued(amm, qty, side, cost) == [amm EXCEPT !.points = @ + cost]

\* exchange.py 248-253: the AMM row after it sold qty half contracts for cost
AmmAfterBuy(amm, qty, side, cost) ==
    [amm EXCEPT !.points = @ + cost,
                !.qYes = IF side = "yes" THEN @ - qty ELSE @,
                !.qNo = IF side = "yes" THEN @ ELSE @ - qty]

\* the collateral taken from the reserve is not mirrored into the market row
BuyMutate_unmirrored(d, mode, t, username, market_id, qty, side, cost) ==
    LET key == <<market_id, username>>
        b == d.MarketDB[market_id].b
        amm1 == AmmAfterBuy(d.AMMDB[market_id], qty, side, cost)
        pos1 == [d.PositionsDB[key] EXCEPT
                    !.qYes = IF side = "yes" THEN @ + qty ELSE @,
                    !.qNo = IF side = "yes" THEN @ ELSE @ + qty]
        d1 == [d EXCEPT !.UserDB[username].points = @ - cost,
                        !.AMMDB[market_id] = amm1,
                        !.MarketDB[market_id].amm_points = amm1.points,
                        !.PositionsDB[key] = pos1]
        required == RequiredCollateral(amm1)
        current == d.ClearingHouseDB[market_id].points
        delta == required - current
        d2 == IF delta > 0
              THEN [d1 EXCEPT !.AMMDB[market_id].points = @ - delta,
                              !.ClearingHouseDB[market_id].points = @ + delta]
              ELSE d1
        d3 == IF mode = "full" THEN get_system_actor_ids(d2) ELSE d2
        d4 == [d3 EXCEPT !.LedgerDB =
                  @ \o BuyLedger(mode, t, market_id, username, cost, side, qty, delta)]
    IN IF delta > 0 /\ amm1.points < delta
       THEN Raise(d1, "AMM lack points for required collateral")
       ELSE IF delta < 0
       THEN Raise(d1, "clearing house has more points than required after minting")
       ELSE [error |-> "", sess |-> d4,
             out |-> [new_balance |-> d4.UserDB[username].points,
                      new_price |-> PriceOfSide(b, d4.AMMDB[market_id], side),
                      quantity |-> qty,
                      order_cost |-> cost]]

\* exchange.py 245-338: the mutation block of a buy of qty half contracts
BuyMutate(d, mode, t, username, market_id, qty, side, cost) ==
    LET key == <<market_id, username>>
        b == d.MarketDB[market_id].b
        amm1 == AmmAfterBuy(d.AMMDB[market_id], qty, side, cost)
        pos1 == [d.PositionsDB[key] EXCEPT
                    !.qYes = IF side = "yes" THEN @ + qty ELSE @,
                    !.qNo = IF side = "yes" THEN @ ELSE @ + qty]
        d1 == [d EXCEPT !.UserDB[username].points = @ - cost,
                        !.AMMDB[market_id] = amm1,
                        !.MarketDB[market_id].amm_points = amm1.points,
                        !.PositionsDB[key] = pos1]
        required == RequiredCollateral(amm1)
        current == d.ClearingHouseDB[market_id].points
        delta == required - current
        d2 == IF delta > 0
              THEN [d1 EXCEPT !.AMMDB[market_id].points = @ - delta,
                              !.MarketDB[market_id].amm_points = amm1.points - delta,
                              !.ClearingHouseDB[market_id].points = @ + delta]
              ELSE d1
        d3 == IF mode = "full" THEN get_system_actor_ids(d2) ELSE d2
        d4 == [d3 EXCEPT !.LedgerDB =
                  @ \o BuyLedger(mode, t, market_id, username, cost, side, qty, delta)]
    IN IF delta > 0 /\ amm1.points < delta
       THEN Raise(d1, "AMM lack points for required collateral")
       ELSE IF delta < 0
       THEN Raise(d1, "clearing house has more points than required after minting")
       ELSE [error |-> "", sess |-> d4,
             out |-> [new_balance |-> d4.UserDB[username].points,
                      new_price |-> PriceOfSide(b, d4.AMMDB[market_id], side),
                      quantity |-> qty,
                      order_cost |-> cost]]

\* the balance is not compared with the cost
BuyAtCost_unchecked(d, mode, t, username, market_id, qty, side, cost) ==
    BuyMutate(d, mode, t, username, market_id, qty, side, cost)

\* exchange.py 242-255: the balance check, at the cost of the order
BuyAtCost(d, mode, t, username, market_id, qty, side, cost) ==
    IF d.UserDB[username].points < cost
    THEN Raise(d, "not enough points for order")
    ELSE BuyMutate(d, mode, t, username, market_id, qty, side, cost)

\* a quantity that is given is traded, whatever the budget
BuySized_asked(d, mode, t, username, market_id, quantity, side, budget_points, found) ==
    BuyAtCost(d, mode, t, username, market_id, quantity, side,
              lmsr_cost(d.MarketDB[market_id].b, -d.AMMDB[market_id].qYes,
                        -d.AMMDB[market_id].qNo, quantity, side))

\* exchange.py 228-240: the quantity of the order, from the budget search's
\* result found when a budget is given, and its cost
BuySized(d, mode, t, username, market_id, quantity, side, budget_points, found) ==
    LET qty == IF budget_points > 0 THEN 2 * found.qty ELSE quantity
    IN IF found.error # "" THEN Raise(d, found.error)
       ELSE BuyAtCost(d, mode, t, username, market_id, qty, side,
                      lmsr_cost(d.MarketDB[market_id].b, -d.AMMDB[market_id].qYes,
                                -d.AMMDB[market_id].qNo, qty, side))

\* exchange.py 189-338
trade_buy(d, mode, t, username, market_id, quantity, side, budget_points, is_visible) ==
    IF side \notin {"yes", "no"} THEN Raise(d, "side must be 'yes' or 'no'")
    ELSE IF quantity <= 0 /\ budget_points <= 0 THEN Raise(d, "quantity must be > 0")
    ELSE
    LET d1 == get_or_create_user(d, username)
    IN IF ~HasMarketBundle(d1, market_id)
       THEN Raise(d1, "Market not found or missing AMM/CH rows")
       ELSE IF MarketResolved(d1, market_id) THEN Raise(d1, "Market is settled")
       ELSE IF is_visible /\ ~is_market_visible_to_user(market_id, username)
       THEN Raise(d1, "You cannot trade this market")
       ELSE
       LET d2 == get_or_create_position_for_update(d1, username, market_id)
           b == d2.MarketDB[market_id].b
           q_yes_total == -d2.AMMDB[market_id].qYes
           q_no_total == -d2.AMMDB[market_id].qNo
       IN BuySized(d2, mode, t, username, market_id, quantity, side, budget_points,
                   IF budget_points > 0
                   THEN _max_int_quantity_for_budget(b, q_yes_total, q_no_total,
                                                     side, budget_points, "buy")
                   ELSE [error |-> "", qty |-> 0])

\* the AMM row pays and does not take the contracts back
AmmAfterSell_unrestocked(amm, qty, side, payout) == [amm EXCEPT !.points = @ - payout]

\* exchange.py 419-427: the AMM row after it bought qty half contracts back
AmmAfterSell(amm, qty, side, payout) ==
    [amm EXCEPT !.points = @ - payout,
                !.qYes = IF side = "yes" THEN @ + qty ELSE @,
                !.qNo = IF side = "yes" THEN @ ELSE @ + qty]

\* the collateral the sell frees stays with the clearing house
SellMutate_unreleased(d, mode, t, username, market_id, qty, side, payout) ==
    LET key == <<market_id, username>>
        amm1 == AmmAfterSell(d.AMMDB[market_id], qty, side, payout)
        d1 == [d EXCEPT !.UserDB[username].points = @ + payout,
                        !.AMMDB[market_id] = amm1,
                        !.MarketDB[market_id].amm_points = amm1.points,
                        !.PositionsDB[key] =
                            [@ EXCEPT !.qYes = IF side = "yes" THEN @ - qty ELSE @,
                                      !.qNo = IF side = "yes" THEN @ ELSE @ - qty]]
    IN [error |-> "", sess |-> d1,
        out |-> [new_balance |-> d1.UserDB[username].points,
                 new_price |-> PriceOfSide(d.MarketDB[market_id].b, amm1, side),
                 quantity |-> qty,
                 order_cost |-> payout]]

\* exchange.py 418-508: the mutation block of a sell of qty half contracts
SellMutate(d, mode, t, username, market_id, qty, side, payout) ==
    LET key == <<market_id, username>>
        b == d.MarketDB[market_id].b
        amm1 == AmmAfterSell(d.AMMDB[market_id], qty, side, payout)
        pos1 == [d.PositionsDB[key] EXCEPT
                    !.qYes = IF side = "yes" THEN @ - qty ELSE @,
                    !.qNo = IF side = "yes" THEN @ ELSE @ - qty]
        d1 == [d EXCEPT !.UserDB[username].points = @ + payout,
                        !.AMMDB[market_id] = amm1,
                        !.MarketDB[market_id].amm_points = amm1.points,
                        !.PositionsDB[key] = pos1]
        required == RequiredCollateral(amm1)
        current == d.ClearingHouseDB[market_id].points
        delta == current - required
        d2 == IF delta > 0
              THEN [d1 EXCEPT !.ClearingHouseDB[market_id].points = @ - delta,
                              !.AMMDB[market_id].points = @ + delta,
                              !.MarketDB[market_id].amm_points = amm1.points + delta]
              ELSE d1
        d3 == IF mode = "full" THEN get_system_actor_ids(d2) ELSE d2
        d4 == [d3 EXCEPT !.LedgerDB =
                  @ \o SellLedger(mode, t, market_id, username, payout, side, qty, delta)]
    IN IF delta < 0
       THEN Raise(d1, "collateral increased after sell; state inconsistent")
       ELSE [error |-> "", sess |-> d4,
             out |-> [new_balance |-> d4.UserDB[username].points,
                      new_price |-> PriceOfSide(b, d4.AMMDB[market_id], side),
                      quantity |-> qty,
                      order_cost |-> payout]]

\* math.floor of a count of half contracts, in half contracts
Floor(q) == q - (q % 2)

\* the seller is paid the payout less a fee of one percent
SellAtPayout_fee(d, mode, t, username, market_id, qty, side, payout) ==
    IF d.AMMDB[market_id].points < payout
    THEN Raise(d, "AMM does not have enough points to pay this sell")
    ELSE SellMutate(d, mode, t, username, market_id, qty, side, payout - payout \div 100)

\* exchange.py 416-427: the AMM's balance check, at the payout of the order
SellAtPayout(d, mode, t, username, market_id, qty, side, payout) ==
    IF d.AMMDB[market_id].points < payout
    THEN Raise(d, "AMM does not have enough points to pay this sell")
    ELSE SellMutate(d, mode, t, username, market_id, qty, side, payout)

\* the holdings are not compared with the quantity
SellSized_unchecked(d, mode, t, username, market_id, quantity, side, budget_points, found) ==
    LET pos == d.PositionsDB[<<market_id, username>>]
        available == IF side = "yes" THEN pos.qYes ELSE pos.qNo
        qty == IF budget_points > 0
               THEN 2 * Min(found.qty, Floor(available) \div 2)
               ELSE quantity
    IN IF found.error # "" THEN Raise(d, found.error)
       ELSE IF qty <= 0 THEN Raise(d, "quantity must be > 0")
       ELSE SellAtPayout(d, mode, t, username, market_id, qty, side,
                         -lmsr_cost(d.MarketDB[market_id].b, -d.AMMDB[market_id].qYes,
                                    -d.AMMDB[market_id].qNo, -qty, side))

\* the budget search's result is not capped by the holdings
SellSized_unclamped(d, mode, t, username, market_id, quantity, side, budget_points, found) ==
    LET pos == d.PositionsDB[<<market_id, username>>]
        qty == IF budget_points > 0 THEN 2 * Min(found.qty, QtySaturation) ELSE quantity
    IN IF found.error # "" THEN Raise(d, found.error)
       ELSE IF side = "yes" /\ pos.qYes < qty
       THEN Raise(d, "not enough YES contracts to sell")
       ELSE IF side = "no" /\ pos.qNo < qty
       THEN Raise(d, "not enough NO contracts to sell")
       ELSE IF qty <= 0 THEN Raise(d, "quantity must be > 0")
       ELSE SellAtPayout(d, mode, t, username, market_id, qty, side,
                         -lmsr_cost(d.MarketDB[market_id].b, -d.AMMDB[market_id].qYes,
                                    -d.AMMDB[market_id].qNo, -qty, side))

\* exchange.py 381-414: the quantity of the order, from the budget search's
\* result found when a budget is given, the holdings checks and the payout
SellSized(d, mode, t, username, market_id, quantity, side, budget_points, found) ==
    LET pos == d.PositionsDB[<<market_id, username>>]
        available == IF side = "yes" THEN pos.qYes ELSE pos.qNo
        \* min(qty, math.floor(available)), in half contracts
        qty == IF budget_points > 0
               THEN 2 * Min(found.qty, Floor(available) \div 2)
               ELSE quantity
    IN IF found.error # "" THEN Raise(d, found.error)
       ELSE IF side = "yes" /\ pos.qYes < qty
       THEN Raise(d, "not enough YES contracts to sell")
       ELSE IF side = "no" /\ pos.qNo < qty
       THEN Raise(d, "not enough NO contracts to sell")
       ELSE IF qty <= 0 THEN Raise(d, "quantity must be > 0")
       ELSE SellAtPayout(d, mode, t, username, market_id, qty, side,
                         -lmsr_cost(d.MarketDB[market_id].b, -d.AMMDB[market_id].qYes,
                                    -d.AMMDB[market_id].qNo, -qty, side))

\* exchange.py 341-508
trade_sell(d, mode, t, username, market_id, quantity, side, budget_points, is_visible) ==
    IF side \notin {"yes", "no"} THEN Raise(d, "side must be 'yes' or 'no'")
    ELSE IF quantity <= 0 /\ budget_points <= 0 THEN Raise(d, "quantity must be > 0")
    ELSE IF username \notin DOMAIN d.UserDB THEN Raise(d, "user not found")
    ELSE IF ~HasMarketBundle(d, market_id)
    THEN Raise(d, "Market not found or missing AMM/CH rows")
    ELSE IF MarketResolved(d, market_id) THEN Raise(d, "Market is settled")
    ELSE IF is_visible /\ ~is_market_visible_to_user(market_id, username)
    THEN Raise(d, "You cannot trade this market")
    ELSE IF <<market_id, username>> \notin DOMAIN d.PositionsDB
    THEN Raise(d, "no position for this market")
    ELSE
    LET b == d.MarketDB[market_id].b
        q_yes_total == -d.AMMDB[market_id].qYes
        q_no_total == -d.AMMDB[market_id].qNo
    IN SellSized(d, mode, t, username, market_id, quantity, side, budget_points,
                 IF budget_points > 0
                 THEN _max_int_quantity_for_budget(b, q_yes_total, q_no_total,
                                                   side, budget_points, "sell")
                 ELSE [error |-> "", qty |-> 0])

---------------------------------------------------------------------------
(* Provisioning and settlement: exchange.py 563-663 *)

\* an existing market row takes the b of the call
Market_init_rewrites(d, name, b) ==
    IF name \in DOMAIN d.MarketDB
    THEN [d EXCEPT !.MarketDB[name].b = b]
    ELSE [d EXCEPT
            !.MarketDB = Put(@, name,
                [b |-> b, amm_points |-> Pts(INITIAL_AMM_POINTS),
                 resolved |-> FALSE, outcome |-> "None", settled_at |-> <<>>]),
            !.AMMDB = Put(@, name,
                [points |-> Pts(INITIAL_AMM_POINTS), qYes |-> 0, qNo |-> 0]),
            !.ClearingHouseDB = Put(@, name, [points |-> 0])]

\* a new market gets no reserve
Market_init_unfunded(d, name, b) ==
    IF name \in DOMAIN d.MarketDB THEN d
    ELSE [d EXCEPT
            !.MarketDB = Put(@, name,
                [b |-> b, amm_points |-> 0,
                 resolved |-> FALSE, outcome |-> "None", settled_at |-> <<>>]),
            !.AMMDB = Put(@, name, [points |-> 0, qYes |-> 0, qNo |-> 0]),
            !.ClearingHouseDB = Put(@, name, [points |-> 0])]

\* exchange.py 564-594: Market(name, b), the database after its commit
Market_init(d, name, b) ==
    LET d1 == IF name \in DOMAIN d.MarketDB THEN d
              ELSE [d EXCEPT
                      !.MarketDB = Put(@, name,
                          [b |-> b, amm_points |-> Pts(INITIAL_AMM_POINTS),
                           resolved |-> FALSE, outcome |-> "None", settled_at |-> <<>>]),
                      !.AMMDB = Put(@, name,
                          [points |-> Pts(INITIAL_AMM_POINTS), qYes |-> 0, qNo |-> 0]),
                      !.ClearingHouseDB = Put(@, name, [points |-> 0])]
        \* ensure AMM/CH exist for old markets
        d2 == IF name \in DOMAIN d1.AMMDB THEN d1
              ELSE [d1 EXCEPT !.AMMDB = Put(@, name,
                       [points |-> d1.MarketDB[name].amm_points, qYes |-> 0, qNo |-> 0])]
    IN IF name \in DOMAIN d2.ClearingHouseDB THEN d2
       ELSE [d2 EXCEPT !.ClearingHouseDB = Put(@, name, [points |-> 0])]

\* the positions of a market, exchange.py 643-645
PositionsOf(d, market_id) == {k \in DOMAIN d.PositionsDB : k[1] = market_id}

\* the losing side is paid
SettlementPayout_swapped(pos, outcome) == IF outcome = "yes" THEN pos.qNo ELSE pos.qYes

\* exchange.py 655-658
SettlementPayout(pos, outcome) == IF outcome = "yes" THEN pos.qYes ELSE pos.qNo

\* a winning contract pays two points
PayoutPoints_double(q) == q * Scale

\* the points one winning half contract pays
PayoutPoints(q) == (q * Scale) \div 2

\* exchange.py 647-661: the user rows after the payout loop
PayWinners(d, market_id, outcome) ==
    [u \in DOMAIN d.UserDB |->
        IF <<market_id, u>> \in DOMAIN d.PositionsDB
           /\ SettlementPayout(d.PositionsDB[<<market_id, u>>], outcome) > 0
        THEN [d.UserDB[u] EXCEPT !.points =
                 @ + PayoutPoints(SettlementPayout(d.PositionsDB[<<market_id, u>>], outcome))]
        ELSE d.UserDB[u]]

\* the payouts are drawn from the market's clearing house
settlement_from_collateral(d, t, market_id, outcome) ==
    IF outcome \notin {"yes", "no"} THEN Raise(d, "outcome must be 'yes' or 'no'")
    ELSE IF market_id \notin DOMAIN d.MarketDB THEN Raise(d, "Market not found")
    ELSE IF d.MarketDB[market_id].resolved THEN Raise(d, "Market already settled")
    ELSE [error |-> "",
          sess |-> [d EXCEPT
                      !.MarketDB[market_id].resolved = TRUE,
                      !.MarketDB[market_id].outcome =
                          IF outcome = "yes" THEN "True" ELSE "False",
                      !.MarketDB[market_id].settled_at = <<t>>,
                      !.UserDB = PayWinners(d, market_id, outcome),
                      !.ClearingHouseDB[market_id].points =
                          @ - (SumPoints(PayWinners(d, market_id, outcome))
                               - SumPoints(d.UserDB))],
          out |-> NoOut]

\* the positions of the settled market are closed
settlement_closes_positions(d, t, market_id, outcome) ==
    IF outcome \notin {"yes", "no"} THEN Raise(d, "outcome must be 'yes' or 'no'")
    ELSE IF market_id \notin DOMAIN d.MarketDB THEN Raise(d, "Market not found")
    ELSE IF d.MarketDB[market_id].resolved THEN Raise(d, "Market already settled")
    ELSE [error |-> "",
          sess |-> [d EXCEPT
                      !.MarketDB[market_id].resolved = TRUE,
                      !.MarketDB[market_id].outcome =
                          IF outcome = "yes" THEN "True" ELSE "False",
                      !.MarketDB[market_id].settled_at = <<t>>,
                      !.UserDB = PayWinners(d, market_id, outcome),
                      !.PositionsDB = [k \in DOMAIN d.PositionsDB |->
                                          IF k[1] = market_id THEN [qYes |-> 0, qNo |-> 0]
                                          ELSE d.PositionsDB[k]]],
          out |-> NoOut]

\* exchange.py 623-663
settlement(d, t, market_id, outcome) ==
    IF outcome \notin {"yes", "no"} THEN Raise(d, "outcome must be 'yes' or 'no'")
    ELSE IF market_id \notin DOMAIN d.MarketDB THEN Raise(d, "Market not found")
    ELSE IF d.MarketDB[market_id].resolved THEN Raise(d, "Market already settled")
    ELSE [error |-> "",
          sess |-> [d EXCEPT
                      !.MarketDB[market_id].resolved = TRUE,
                      !.MarketDB[market_id].outcome =
                          IF outcome = "yes" THEN "True" ELSE "False",
                      !.MarketDB[market_id].settled_at = <<t>>,
                      !.UserDB = PayWinners(d, market_id, outcome)],
          out |-> NoOut]

---------------------------------------------------------------------------
(* Boundary: main.py 280-283, 423-557 and exchange.py 609-621.  Each       *)
(* returns [error, db, sess, out]: db is the database after the request.   *)

\* the session's rows are committed whatever the outcome
EndSession_commits(d, r) == r.sess

\* session.commit() on success, session.rollback() on an error
EndSession(d, r) == IF r.error = "" THEN r.sess ELSE d

Reply(d, r) == [error |-> r.error, db |-> EndSession(d, r), sess |-> r.sess, out |-> r.out]
Reject(d, msg) == [error |-> msg, db |-> d, sess |-> d, out |-> NoOut]

\* float(qty or 1): main.py 456 and 515
QtyOrOne(quantity) == IF quantity = 0 THEN 2 ELSE quantity

\* main.py 51-64: elapsed is the time since the key's last trade, in seconds
check_cooldown(times, username, market_id, elapsed) ==
    <<username, market_id>> \in times /\ elapsed < TRADE_COOLDOWN_SECONDS

\* main.py 423-479
buy(d, mode, t, market_id, username, quantity, yesOrNo, points, cooling) ==
    IF username \notin ALLOWED_USERNAMES THEN Reject(d, "User not allowed")
    ELSE IF yesOrNo \notin {"yes", "no"} THEN Reject(d, "yesOrNo must be 'yes' or 'no'")
    ELSE IF quantity <= 0 /\ points <= 0 THEN Reject(d, "quantity or points must be > 0")
    ELSE IF cooling THEN Reject(d, "Too many trades in this market")
    ELSE Reply(d, trade_buy(d, mode, t, username, market_id, QtyOrOne(quantity),
                            yesOrNo, points, TRUE))

\* main.py 482-538
sell(d, mode, t, market_id, username, quantity, yesOrNo, points, cooling) ==
    IF username \notin ALLOWED_USERNAMES THEN Reject(d, "User not allowed")
    ELSE IF yesOrNo \notin {"yes", "no"} THEN Reject(d, "yesOrNo must be 'yes' or 'no'")
    ELSE IF quantity <= 0 /\ points <= 0 THEN Reject(d, "quantity or points must be > 0")
    ELSE IF cooling THEN Reject(d, "Too many trades in this market")
    ELSE Reply(d, trade_sell(d, mode, t, username, market_id, QtyOrOne(quantity),
                             yesOrNo, points, TRUE))

\* exchange.py 609-614, and the bot loop main.py 165-187
Market_buy(d, mode, t, market_id, username, quantity, side) ==
    Reply(d, trade_buy(d, mode, t, username, market_id, quantity, side, 0, FALSE))

\* exchange.py 616-621, and the bot loop main.py 165-187
Market_sell(d, mode, t, market_id, username, quantity, side) ==
    Reply(d, trade_sell(d, mode, t, username, market_id, quantity, side, 0, FALSE))

\* main.py 541-557
settle(d, t, market_id, outcome) ==
    IF outcome \notin {"yes", "no"} THEN Reject(d, "Outcome must be 'yes' or 'no'")
    ELSE IF market_id \notin DOMAIN d.MarketDB THEN Reject(d, "Market not found")
    ELSE IF d.MarketDB[market_id].resolved THEN Reject(d, "Market already settled")
    ELSE LET d1 == Market_init(d, market_id, DEFAULT_B)
         IN Reply(d1, settlement(d1, t, market_id, outcome))

\* main.py 280-283: Market(name, b) commits in its own sessions
create_market(d, name, b) ==
    [error |-> "", db |-> Market_init(d, name, b), sess |-> Market_init(d, name, b),
     out |-> NoOut]

---------------------------------------------------------------------------
(* Requests served one at a time *)

Budget1 == Scale + Scale \div 5       \* 1.2 points
BudgetSmall == Scale \div 5           \* 0.2 points: no contract costs so little

TradeRequest(u, m, side, quantity, points) ==
    [username |-> u, market_id |-> m, side |-> side, quantity |-> quantity, points |-> points]

BuyRequests ==
    { TradeRequest("u1", MarketA, "yes", 2, 0),
      TradeRequest("u1", MarketA, "no", 0, Budget1),
      TradeRequest("u2", MarketA, "yes", 4, 0),
      TradeRequest("u2", MarketA, "no", 2, 0),
      TradeRequest("u1", MarketB, "yes", 2, 0),
      TradeRequest("u2", MarketB, "no", 2, 0),
      TradeRequest("u2", MarketA, "no", 0, BudgetSmall),
      TradeRequest("u1", MarketA, "maybe", 2, 0),
      TradeRequest("u3", MarketA, "yes", 2, 0) }

SellRequests ==
    { TradeRequest("u1", MarketA, "yes", 2, 0),
      TradeRequest("u1", MarketA, "no", 0, Budget1),
      TradeRequest("u2", MarketA, "yes", 2, 0),
      TradeRequest("u2", MarketA, "no", 4, 0),
      TradeRequest("u1", MarketB, "yes", 2, 0) }

WrapperRequests == { TradeRequest("u2", MarketB, "no", 2, 0) }

SettleRequests == { <<MarketA, "yes">>, <<MarketA, "no">>, <<MarketB, "yes">> }

CreateRequests == { <<MarketA, 4>>, <<MarketB, 4>> }

Txns == {"t1", "t2", "t3"}
IdleTx ==
    [pc |-> "idle", op |-> "", username |-> "", market_id |-> <<>>, side |-> "",
     quantity |-> 0, user_row |-> <<>>, bundle |-> <<>>, positions |-> <<>>,
     users |-> <<>>, todo |-> <<>>, overlapped |-> FALSE, at |-> "", error |-> "",
     out |-> NoOut]

NoRequest ==
    [op |-> "none", via |-> "", username |-> "", market_id |-> <<>>, side |-> "",
     quantity |-> 0, points |-> 0, error |-> "", out |-> NoOut, sess |-> EmptyDB,
     before |-> EmptyDB]

\* the request is answered: the database is what the handler left; last keeps
\* the request, the reply, the session's rows and the database before it
Serve(op, via, req, r) ==
    /\ now < MaxOps
    /\ UserDB' = r.db.UserDB
    /\ MarketDB' = r.db.MarketDB
    /\ AMMDB' = r.db.AMMDB
    /\ ClearingHouseDB' = r.db.ClearingHouseDB
    /\ PositionsDB' = r.db.PositionsDB
    /\ LedgerDB' = r.db.LedgerDB
    /\ now' = now + 1
    /\ last' = [op |-> op, via |-> via, username |-> req.username,
                market_id |-> req.market_id, side |-> req.side,
                quantity |-> req.quantity, points |-> req.points,
                error |-> r.error, out |-> r.out, sess |-> r.sess, before |-> DB]
    /\ payouts_disbursed' =
          IF op = "settle" /\ r.error = ""
          THEN payouts_disbursed + SumPoints(r.db.UserDB) - SumPoints(UserDB)
          ELSE payouts_disbursed
    /\ last_trade_times' =
          IF via = "http" /\ op \in {"buy", "sell"} /\ r.error = ""
          THEN last_trade_times \cup {<<req.username, req.market_id>>}
          ELSE last_trade_times
    /\ UNCHANGED <<LEDGER_MODE, tx, lock>>

HttpBuy ==
    \E req \in BuyRequests, elapsed \in {0, MaxElapsed} :
        Serve("buy", "http", req,
              buy(DB, LEDGER_MODE, now, req.market_id, req.username,
                  req.quantity, req.side, req.points,
                  check_cooldown(last_trade_times, req.username, req.market_id, elapsed)))

HttpSell ==
    \E req \in SellRequests, elapsed \in {0, MaxElapsed} :
        Serve("sell", "http", req,
              sell(DB, LEDGER_MODE, now, req.market_id, req.username,
                   req.quantity, req.side, req.points,
                   check_cooldown(last_trade_times, req.username, req.market_id, elapsed)))

WrapperBuy ==
    \E req \in WrapperRequests :
        Serve("buy", "wrapper", req,
              Market_buy(DB, LEDGER_MODE, now, req.market_id, req.username,
                         req.quantity, req.side))

WrapperSell ==
    \E req \in WrapperRequests :
        Serve("sell", "wrapper", req,
              Market_sell(DB, LEDGER_MODE, now, req.market_id, req.username,
                          req.quantity, req.side))

HttpSettle ==
    \E s \in SettleRequests :
        Serve("settle", "http", TradeRequest("", s[1], s[2], 0, 0),
              settle(DB, now, s[1], s[2]))

HttpCreateMarket ==
    \E c \in CreateRequests :
        Serve("create", "http", TradeRequest("", c[1], "", 0, c[2]),
              create_market(DB, c[1], c[2]))

\* one market has been created, with the default b
Provisioned == Market_init(EmptyDB, MarketA, DEFAULT_B)

Init ==
    /\ UserDB = Provisioned.UserDB
    /\ MarketDB = Provisioned.MarketDB
    /\ AMMDB = Provisioned.AMMDB
    /\ ClearingHouseDB = Provisioned.ClearingHouseDB
    /\ PositionsDB = Provisioned.PositionsDB
    /\ LedgerDB = Provisioned.LedgerDB
    /\ LEDGER_MODE \in LedgerModes
    /\ now = 0
    /\ last = NoRequest
    /\ payouts_disbursed = 0
    /\ last_trade_times = {}
    /\ tx = [t \in Txns |-> IdleTx]
    /\ lock = <<>>

Next ==
    \/ HttpBuy
    \/ HttpSell
    \/ WrapperBuy
    \/ WrapperSell
    \/ HttpSettle
    \/ HttpCreateMarket

Spec == Init /\ [][Next]_vars

---------------------------------------------------------------------------
(* Properties of requests served one at a time *)

Total == SumPoints(UserDB) + SumPoints(AMMDB) + SumPoints(ClearingHouseDB)

\* the starting balances of the users created (the two system rows start at
\* 0) plus the initial reserves of the markets created
InitialTotal ==
    Pts(INITIAL_USER_POINTS)
        * Cardinality(DOMAIN UserDB \ {SYSTEM_AMM_USERNAME, SYSTEM_CH_USERNAME})
    + Pts(INITIAL_AMM_POINTS) * Cardinality(DOMAIN MarketDB)

NoSettlement == \A m \in DOMAIN MarketDB : ~MarketDB[m].resolved

\* the step serves a request
Served == now' # now

\* C1: as long as no market has been settled, the points of the users, the
\* AMMs and the clearing houses add up to the starting balances of the users
\* created plus the initial reserves of the markets created: no committed
\* buy or sell changes the total.
C1_Conservation == NoSettlement => Total = InitialTotal

C1_Witness ==
    /\ NoSettlement
    /\ last.op = "sell" /\ last.error = "" /\ last.out.order_cost > 0
    /\ Cardinality(DOMAIN UserDB) >= 2

\* C2: in every committed state, so after every committed buy or sell, each
\* market's clearing house holds one point per contract of the larger of the
\* outstanding YES and outstanding NO counts: max(-qYes, -qNo, 0).
C2_Collateral ==
    \A m \in DOMAIN ClearingHouseDB :
        ClearingHouseDB[m].points
            = (Max(Max(-AMMDB[m].qYes, -AMMDB[m].qNo), 0) * Scale) \div 2

C2_Witness ==
    /\ last.op = "sell" /\ last.error = ""
    /\ ClearingHouseDB[last.market_id].points > 0
    /\ AMMDB[last.market_id].qYes # AMMDB[last.market_id].qNo

\* the step serves a buy or a sell on a market that was settled before it
TradeOnSettled ==
    /\ Served
    /\ last'.op \in {"buy", "sell"}
    /\ last'.market_id \in DOMAIN MarketDB
    /\ MarketDB[last'.market_id].resolved

\* the errors of the checks that come before the check of the resolved flag:
\* the boundary's (allow list, arguments, cooldown), the engine's argument
\* checks and, for a sell, the lookup of the user row
EarlierErrors(op) ==
    {"User not allowed", "yesOrNo must be 'yes' or 'no'", "quantity or points must be > 0",
     "Too many trades in this market", "side must be 'yes' or 'no'", "quantity must be > 0"}
    \cup (IF op = "sell" THEN {"user not found"} ELSE {})

\* the request served passes the boundary's checks: main.py 431-446
PassesBoundary ==
    /\ last'.via = "http" => last'.username \in ALLOWED_USERNAMES
    /\ last'.side \in {"yes", "no"}
    /\ last'.quantity > 0 \/ last'.points > 0
    /\ last'.via = "http" => <<last'.username, last'.market_id>> \notin last_trade_times

\* C3 as stated: every buy or sell on a settled market, by any user, fails
\* with the market-settled error and changes no row (here: every such request
\* that the boundary lets through to the engine).
C3_Original ==
    [][(TradeOnSettled /\ PassesBoundary)
          => (last'.error = "Market is settled" /\ UNCHANGED dbvars)]_vars

\* C3 as amended: every buy or sell on a settled market fails and changes no
\* row; the error is the market-settled error unless a check that comes
\* before the resolved flag's rejected the request (the boundary's allow list,
\* argument checks and cooldown; for a sell, the user has no row).
C3_Frozen ==
    [][TradeOnSettled =>
          /\ last'.error \in {"Market is settled"} \cup EarlierErrors(last'.op)
          /\ UNCHANGED dbvars
          /\ (PassesBoundary /\ (last'.op = "buy" \/ last'.username \in DOMAIN UserDB))
             => last'.error = "Market is settled"]_vars

C3_Witness ==
    /\ last.op \in {"buy", "sell"}
    /\ last.error = "Market is settled"
    /\ last.points > 0

\* the points a settlement of market m at outcome o owes user u, from the
\* positions before it
Winnings(u, m, o) ==
    IF <<m, u>> \notin DOMAIN PositionsDB THEN 0
    ELSE ((IF o = "yes" THEN PositionsDB[<<m, u>>].qYes ELSE PositionsDB[<<m, u>>].qNo)
          * Scale) \div 2

\* C4: a successful settle(market, outcome) raises the balance of each user
\* by exactly the count of winning-side contracts the user held in the market
\* before it (qYes for yes, qNo for no); users who hold none, or no position,
\* keep their balance, and no user row appears or disappears.
C4_PaysWinners ==
    [][(Served /\ last'.op = "settle" /\ last'.error = "") =>
          /\ DOMAIN UserDB' = DOMAIN UserDB
          /\ \A u \in DOMAIN UserDB :
                 UserDB'[u].points
                     = UserDB[u].points + Winnings(u, last'.market_id, last'.side)]_vars

C4_Witness ==
    /\ last.op = "settle" /\ last.error = ""
    /\ payouts_disbursed > 0
    /\ \E k \in DOMAIN PositionsDB :
          /\ k[1] = last.market_id
          /\ (IF last.side = "yes" THEN PositionsDB[k].qYes ELSE PositionsDB[k].qNo) = 0
          /\ (IF last.side = "yes" THEN PositionsDB[k].qNo ELSE PositionsDB[k].qYes) > 0

C7_Rollback ==
    [][(Served /\ last'.op \in {"buy", "sell", "settle"} /\ last'.error # "")
          => UNCHANGED dbvars]_vars

\* a buy failed after its session had inserted the user row
C7_Witness ==
    /\ last.op = "buy" /\ last.error # ""
    /\ last.username \notin DOMAIN UserDB
    /\ last.username \in DOMAIN last.sess.UserDB

---------------------------------------------------------------------------
(* Concurrent requests.  Each request runs in a session of its own, one    *)
(* statement at a time, against a database with row locks and READ         *)
(* COMMITTED visibility: SELECT ... FOR UPDATE waits while another         *)
(* transaction holds the row, then reads the committed row; a plain SELECT *)
(* reads the committed row and takes no lock; a row inserted and not yet   *)
(* committed is held by its inserter, invisible to the others, and makes   *)
(* their INSERT of the same key wait; an UPDATE needs the row's lock;      *)
(* commit and rollback release every lock.  The session keeps the rows it  *)
(* read (tx[t].user_row, bundle, users, positions) and computes from them. *)

UserKey(u) == <<"user", u>>
MarketKey(m) == <<"market", m>>

Holder(k) == IF k \in DOMAIN lock THEN lock[k] ELSE ""
Free(k, t) == Holder(k) \in {"", t}
Acquire(k, t) == Put(lock, k, t)
Release(t) == [k \in {j \in DOMAIN lock : lock[j] # t} |-> lock[k]]

ConcRequest(op, u, m, side, quantity) ==
    [op |-> op, username |-> u, market_id |-> m, side |-> side, quantity |-> quantity]

ConcRequests ==
    { ConcRequest("buy", "u1", MarketA, "yes", 2),
      ConcRequest("buy", "u1", MarketB, "yes", 2),
      ConcRequest("buy", "u1", MarketC, "yes", 2),
      ConcRequest("buy", "u2", MarketA, "no", 4),
      ConcRequest("sell", "u1", MarketA, "yes", 2),
      ConcRequest("settle", "", MarketA, "yes", 0),
      ConcRequest("settle", "", MarketA, "no", 0) }

\* transactions are interchangeable: they start in the order t1, t2, t3
MayBegin(t) ==
    /\ tx[t].pc = "idle"
    /\ t = "t2" => tx["t1"].pc # "idle"
    /\ t = "t3" => tx["t2"].pc # "idle"

InFlight(t) == tx[t].pc \notin {"idle", "done", "failed"}

\* the request of t ends: at is the statement it ended at
Finish(t, error, out) ==
    [tx EXCEPT ![t].pc = IF error = "" THEN "done" ELSE "failed",
               ![t].at = tx[t].pc, ![t].error = error, ![t].out = out]

\* a request arrives: main.py 423-448, 482-507, 541-552
TxBegin(t) ==
    /\ MayBegin(t)
    /\ \E req \in ConcRequests :
          tx' = [tx EXCEPT ![t] =
                    [IdleTx EXCEPT !.pc = IF req.op = "settle" THEN "precheck" ELSE "user",
                                   !.overlapped = \E o \in Txns : InFlight(o),
                                   !.op = req.op, !.username = req.username,
                                   !.market_id = req.market_id, !.side = req.side,
                                   !.quantity = req.quantity]]
    /\ now' = now + 1
    /\ UNCHANGED <<dbvars, LEDGER_MODE, last, last_trade_times, payouts_disbursed, lock>>

\* exchange.py 206-210 and 357-361: SELECT the user row FOR UPDATE
TxLockUser(t) ==
    LET u == tx[t].username IN
    /\ tx[t].pc = "user"
    /\ IF u \in DOMAIN UserDB
       THEN /\ Free(UserKey(u), t)
            /\ lock' = Acquire(UserKey(u), t)
            /\ tx' = [tx EXCEPT ![t].pc = "market", ![t].user_row = <<UserDB[u]>>]
       ELSE /\ lock' = lock
            /\ tx' = IF tx[t].op = "buy"
                     THEN [tx EXCEPT ![t].pc = "create"]
                     ELSE Finish(t, "user not found", NoOut)
    /\ UNCHANGED <<dbvars, LEDGER_MODE, now, last, last_trade_times, payouts_disbursed>>

\* exchange.py 131-146: a plain SELECT, then INSERT and flush; an INSERT that
\* waited for a committed inserter fails, and the row is selected again
TxGetOrCreateUser(t) ==
    LET u == tx[t].username IN
    /\ tx[t].pc = "create"
    /\ IF u \in DOMAIN UserDB
       THEN /\ lock' = lock
            /\ tx' = [tx EXCEPT ![t].pc = "market", ![t].user_row = <<UserDB[u]>>]
       ELSE /\ Free(UserKey(u), t)
            /\ lock' = Acquire(UserKey(u), t)
            /\ tx' = [tx EXCEPT ![t].pc = "market"]
    /\ UNCHANGED <<dbvars, LEDGER_MODE, now, last, last_trade_times, payouts_disbursed>>

\* the locking read does not wait for the holder of the bundle
BundleLockGranted_nowait(m, t) == TRUE

\* whether the locking read of the bundle may proceed
BundleLockGranted(m, t) == Free(MarketKey(m), t)

\* exchange.py 149-163, 213 and 364: SELECT market, AMM, CH FOR UPDATE
TxLockMarket(t) ==
    LET m == tx[t].market_id IN
    /\ tx[t].pc = "market"
    /\ BundleLockGranted(m, t)
    /\ lock' = Acquire(MarketKey(m), t)
    /\ tx' = [tx EXCEPT ![t].pc = "trade",
                        ![t].bundle = <<[market |-> MarketDB[m], amm |-> AMMDB[m],
                                          ch |-> ClearingHouseDB[m]]>>]
    /\ UNCHANGED <<dbvars, LEDGER_MODE, now, last, last_trade_times, payouts_disbursed>>

\* the database as the session of trade t sees it: the rows it has read are
\* the ones it read, the others are selected now
TradeView(t) ==
    LET u == tx[t].username
        m == tx[t].market_id
        d1 == IF tx[t].user_row = <<>> THEN DB
              ELSE [DB EXCEPT !.UserDB = Put(@, u, tx[t].user_row[1])]
    IN [d1 EXCEPT !.MarketDB[m] = tx[t].bundle[1].market,
                  !.AMMDB[m] = tx[t].bundle[1].amm,
                  !.ClearingHouseDB[m] = tx[t].bundle[1].ch]

TradeResult(t) ==
    IF tx[t].op = "buy"
    THEN trade_buy(TradeView(t), LEDGER_MODE, now, tx[t].username, tx[t].market_id,
                   tx[t].quantity, tx[t].side, 0, TRUE)
    ELSE trade_sell(TradeView(t), LEDGER_MODE, now, tx[t].username, tx[t].market_id,
                    tx[t].quantity, tx[t].side, 0, TRUE)

\* exchange.py 215-338 and 366-508, then main.py 468-472 and 527-531: the
\* checks and the mutation on the session's rows; an error rolls back
TradeEnds(t, r) ==
    /\ tx[t].pc = "trade"
    /\ IF r.error # ""
       THEN /\ tx' = Finish(t, r.error, NoOut)
            /\ lock' = Release(t)
       ELSE /\ tx' = [tx EXCEPT ![t].pc = "commit"]
            /\ lock' = lock
    /\ UNCHANGED <<dbvars, LEDGER_MODE, now, last, last_trade_times, payouts_disbursed>>

TxTrade(t) == TradeEnds(t, TradeResult(t))

\* main.py 466 and 525: session.commit() writes the session's rows
TradeCommits(t, r) ==
    /\ tx[t].pc = "commit"
    /\ Free(UserKey(tx[t].username), t)
    /\ UserDB' = r.sess.UserDB
    /\ MarketDB' = r.sess.MarketDB
    /\ AMMDB' = r.sess.AMMDB
    /\ ClearingHouseDB' = r.sess.ClearingHouseDB
    /\ PositionsDB' = r.sess.PositionsDB
    /\ LedgerDB' = r.sess.LedgerDB
    /\ tx' = Finish(t, "", r.out)
    /\ lock' = Release(t)
    /\ UNCHANGED <<LEDGER_MODE, now, last, last_trade_times, payouts_disbursed>>

TxCommit(t) == TradeCommits(t, TradeResult(t))

\* main.py 546-555: the unlocked check of the handler
TxSettlePrecheck(t) ==
    LET m == tx[t].market_id IN
    /\ tx[t].pc = "precheck"
    /\ tx' = IF m \notin DOMAIN MarketDB THEN Finish(t, "Market not found", NoOut)
             ELSE IF MarketDB[m].resolved THEN Finish(t, "Market already settled", NoOut)
             ELSE [tx EXCEPT ![t].pc = "smarket"]
    /\ UNCHANGED <<dbvars, LEDGER_MODE, now, last, last_trade_times, payouts_disbursed, lock>>

\* the sequences that enumerate the set S once each
RECURSIVE Orderings(_)
Orderings(S) ==
    IF S = {} THEN {<<>>}
    ELSE UNION {{<<x>> \o o : o \in Orderings(S \ {x})} : x \in S}

\* the read of the market row does not wait for its holder
MarketLockGranted_nowait(m, t) == TRUE

\* whether the locking read of the market row may proceed
MarketLockGranted(m, t) == Free(MarketKey(m), t)

\* exchange.py 630-645: SELECT the market row FOR UPDATE, check resolved,
\* then a plain SELECT of the market's positions
TxSettleLockMarket(t) ==
    LET m == tx[t].market_id
        held == PositionsOf(DB, m)
    IN
    /\ tx[t].pc = "smarket"
    /\ MarketLockGranted(m, t)
    /\ IF MarketDB[m].resolved
       THEN /\ tx' = Finish(t, "Market already settled", NoOut)
            /\ lock' = Release(t)
       ELSE /\ \E order \in Orderings({k[2] : k \in held}) :
                 tx' = [tx EXCEPT ![t].pc = "susers",
                                  ![t].bundle = <<[market |-> MarketDB[m]]>>,
                                  ![t].positions = [k \in held |-> PositionsDB[k]],
                                  ![t].todo = order]
            /\ lock' = Acquire(MarketKey(m), t)
    /\ UNCHANGED <<dbvars, LEDGER_MODE, now, last, last_trade_times, payouts_disbursed>>

\* exchange.py 648-651: SELECT the holder's user row FOR UPDATE
TxSettleLockUser(t) ==
    /\ tx[t].pc = "susers"
    /\ tx[t].todo # <<>>
    /\ LET u == Head(tx[t].todo) IN
          /\ Free(UserKey(u), t)
          /\ lock' = Acquire(UserKey(u), t)
          /\ tx' = [tx EXCEPT ![t].users = Put(@, u, UserDB[u]),
                              ![t].todo = Tail(@)]
    /\ UNCHANGED <<dbvars, LEDGER_MODE, now, last, last_trade_times, payouts_disbursed>>

\* the database as the session of settlement t sees it
SettleView(t) ==
    LET m == tx[t].market_id
        others == DOMAIN PositionsDB \ PositionsOf(DB, m)
    IN [DB EXCEPT
          !.MarketDB[m] = tx[t].bundle[1].market,
          !.UserDB = [u \in DOMAIN UserDB |->
                         IF u \in DOMAIN tx[t].users THEN tx[t].users[u] ELSE UserDB[u]],
          !.PositionsDB = [k \in others \cup DOMAIN tx[t].positions |->
                              IF k \in others THEN PositionsDB[k] ELSE tx[t].positions[k]]]

\* exchange.py 638-663: the payout loop on the rows read, and the commit
SettlementCommits(t, r) ==
    /\ tx[t].pc = "susers"
    /\ tx[t].todo = <<>>
    /\ UserDB' = r.sess.UserDB
    /\ MarketDB' = r.sess.MarketDB
    /\ payouts_disbursed' = payouts_disbursed + SumPoints(r.sess.UserDB) - SumPoints(UserDB)
    /\ tx' = Finish(t, "", NoOut)
    /\ lock' = Release(t)
    /\ UNCHANGED <<AMMDB, ClearingHouseDB, PositionsDB, LedgerDB, LEDGER_MODE, now, last, last_trade_times>>

TxSettleCommit(t) ==
    SettlementCommits(t, settlement(SettleView(t), now, tx[t].market_id, tx[t].side))

\* the transaction whose lock the next statement of t waits for ("": none)
WaitsFor(t) ==
    LET u == tx[t].username
        m == tx[t].market_id
        Other(k) == IF Free(k, t) THEN "" ELSE Holder(k)
    IN CASE tx[t].pc = "user" /\ u \in DOMAIN UserDB -> Other(UserKey(u))
         [] tx[t].pc = "create" /\ u \notin DOMAIN UserDB -> Other(UserKey(u))
         [] tx[t].pc \in {"market", "smarket"} -> Other(MarketKey(m))
         [] tx[t].pc = "commit" -> Other(UserKey(u))
         [] tx[t].pc = "susers" /\ tx[t].todo # <<>> -> Other(UserKey(Head(tx[t].todo)))
         [] OTHER -> ""

\* t waits, directly or through others, for a transaction that waits for t
Deadlocked(t) ==
    \E a \in Txns \ {t} :
        /\ WaitsFor(t) = a
        /\ \/ WaitsFor(a) = t
           \/ \E b \in Txns \ {t, a} : WaitsFor(a) = b /\ WaitsFor(b) = t

\* the database's deadlock detector aborts a transaction of the cycle
TxDeadlock(t) ==
    /\ Deadlocked(t)
    /\ tx' = Finish(t, "deadlock detected", NoOut)
    /\ lock' = Release(t)
    /\ UNCHANGED <<dbvars, LEDGER_MODE, now, last, last_trade_times, payouts_disbursed>>

\* three markets have been created; the ledger is off
ProvisionedAll == Market_init(Market_init(Provisioned, MarketB, 4), MarketC, DEFAULT_B)

InitConc ==
    /\ UserDB = ProvisionedAll.UserDB
    /\ MarketDB = ProvisionedAll.MarketDB
    /\ AMMDB = ProvisionedAll.AMMDB
    /\ ClearingHouseDB = ProvisionedAll.ClearingHouseDB
    /\ PositionsDB = ProvisionedAll.PositionsDB
    /\ LedgerDB = ProvisionedAll.LedgerDB
    /\ LEDGER_MODE = "off"
    /\ now = 0
    /\ last = NoRequest
    /\ payouts_disbursed = 0
    /\ last_trade_times = {}
    /\ tx = [t \in Txns |-> IdleTx]
    /\ lock = <<>>

NextConc ==
    \E t \in Txns :
        \/ TxBegin(t)
        \/ TxLockUser(t)
        \/ TxGetOrCreateUser(t)
        \/ TxLockMarket(t)
        \/ TxTrade(t)
        \/ TxCommit(t)
        \/ TxSettlePrecheck(t)
        \/ TxSettleLockMarket(t)
        \/ TxSettleLockUser(t)
        \/ TxSettleCommit(t)
        \/ TxDeadlock(t)

SpecConc == InitConc /\ [][NextConc]_vars

---------------------------------------------------------------------------
(* Properties of concurrent requests *)

Ended(t) == tx[t].pc \in {"done", "failed"}
Begun == {t \in Txns : tx[t].pc # "idle"}

\* C5: a market is settled at most once.  Once resolved is true the market's
\* resolved, outcome and settled_at never change, and every settle of that
\* market that ends afterwards, whether it started after the first one
\* committed or ran concurrently with it, fails and changes no table and
\* pays nothing.
C5_SettledOnce ==
    [][\A m \in DOMAIN MarketDB :
          MarketDB[m].resolved =>
             /\ MarketDB'[m].resolved
             /\ MarketDB'[m].outcome = MarketDB[m].outcome
             /\ MarketDB'[m].settled_at = MarketDB[m].settled_at
             /\ \A t \in Txns :
                   (/\ tx[t].op = "settle" /\ tx[t].market_id = m
                    /\ InFlight(t) /\ tx'[t].pc \in {"done", "failed"})
                   => (/\ tx'[t].pc = "failed"
                       /\ UNCHANGED <<dbvars, payouts_disbursed>>)]_vars

\* a settle that passed the handler's check while the market was open found
\* it settled by a concurrent settle once it held the market row
C5_Witness ==
    \E s, t \in Txns :
        /\ tx[s].op = "settle" /\ tx[s].pc = "done"
        /\ tx[t].op = "settle" /\ tx[t].market_id = tx[s].market_id
        /\ tx[t].pc = "failed" /\ tx[t].at = "smarket"
        /\ tx[t].error = "Market already settled"
        /\ payouts_disbursed > 0

\* the requests begun are all ended and are buys by distinct users on one market
BuysOfDistinctUsers ==
    /\ Cardinality(Begun) >= 2
    /\ \A t \in Begun : Ended(t) /\ tx[t].op = "buy"
    /\ \A s, t \in Begun :
          /\ tx[s].market_id = tx[t].market_id
          /\ s # t => tx[s].username # tx[t].username

\* the database after the buys of order, served one after another
RECURSIVE RunBuys(_, _)
RunBuys(d, order) ==
    IF order = <<>> THEN d
    ELSE LET t == Head(order)
         IN RunBuys(buy(d, LEDGER_MODE, now, tx[t].market_id, tx[t].username,
                        tx[t].quantity, tx[t].side, 0, FALSE).db,
                    Tail(order))

\* C8: when buys by distinct users on one market have run concurrently, the
\* tables (AMM inventory and reserve, clearing house, balances, positions,
\* market rows) are those that serving the same buys one after another, in
\* some order, produces.
C8_Serializable ==
    BuysOfDistinctUsers => \E order \in Orderings(Begun) : RunBuys(ProvisionedAll, order) = DB

C8_Witness ==
    /\ BuysOfDistinctUsers
    /\ \A t \in Begun : tx[t].pc = "done"
    /\ \E t \in Begun : tx[t].overlapped /\ tx[t].at = "commit"

\* C9: a settlement and a trade on the same market never each wait for a row
\* lock the other holds.
C9_NoCrossWait ==
    ~(\E s, t \in Txns :
         /\ tx[s].op = "settle"
         /\ tx[t].op \in {"buy", "sell"}
         /\ tx[t].market_id = tx[s].market_id
         /\ WaitsFor(s) = t
         /\ WaitsFor(t) = s)

\* the requests begun are all ended and are trades of one username on
\* pairwise distinct markets
TradesOfOneUser ==
    /\ Cardinality(Begun) >= 2
    /\ \A t \in Begun : Ended(t) /\ tx[t].op \in {"buy", "sell"}
    /\ \A s, t \in Begun :
          /\ tx[s].username = tx[t].username
          /\ s # t => tx[s].market_id # tx[t].market_id

\* the cost of the committed buy, minus the payout of the committed sell, of t
Charged(t) ==
    IF tx[t].pc # "done" THEN 0
    ELSE IF tx[t].op = "buy" THEN tx[t].out.order_cost
    ELSE -tx[t].out.order_cost

\* C10: after concurrent trades of one username on distinct markets, the
\* user's balance is the starting balance minus the costs plus the payouts
\* of the committed trades, also when one of the buys created the user row.
C10_NoLostUpdate ==
    TradesOfOneUser =>
        \A u \in DOMAIN UserDB :
            UserDB[u].points
                = Pts(INITIAL_USER_POINTS)
                  - SumOver({t \in Begun : tx[t].username = u}, [t \in Txns |-> Charged(t)])

---------------------------------------------------------------------------
(* The budget search on its own: _max_int_quantity_for_budget applied to   *)
(* inventories, budgets, sides and modes drawn from bounded sets.  The     *)
(* market row and its AMM row carry b and the inventory; last records the  *)
(* call (op is the mode, points the budget) and what it returned.          *)

KernelInventory == {0, -2, -6, -20}
KernelBudgets == {BudgetSmall, Budget1, Pts(3), Pts(14), Pts(40)}

KernelDB(b, qYes, qNo) ==
    [Market_init(EmptyDB, MarketA, b) EXCEPT !.AMMDB[MarketA].qYes = qYes,
                                            !.AMMDB[MarketA].qNo = qNo]

InitKernel ==
    /\ \E b \in BValues, qYes \in KernelInventory, qNo \in KernelInventory :
          /\ UserDB = KernelDB(b, qYes, qNo).UserDB
          /\ MarketDB = KernelDB(b, qYes, qNo).MarketDB
          /\ AMMDB = KernelDB(b, qYes, qNo).AMMDB
          /\ ClearingHouseDB = KernelDB(b, qYes, qNo).ClearingHouseDB
          /\ PositionsDB = KernelDB(b, qYes, qNo).PositionsDB
          /\ LedgerDB = KernelDB(b, qYes, qNo).LedgerDB
    /\ LEDGER_MODE = "off"
    /\ now = 0
    /\ last = NoRequest
    /\ payouts_disbursed = 0
    /\ last_trade_times = {}
    /\ tx = [t \in Txns |-> IdleTx]
    /\ lock = <<>>

\* what the search returned for the call
Searched(mode, side, budget, found) ==
    last' = [NoRequest EXCEPT !.op = mode, !.via = "kernel", !.market_id = MarketA,
                              !.side = side, !.points = budget,
                              !.quantity = found.qty, !.error = found.error]

\* exchange.py 229-236 and 386-393: the call of the search
BudgetSearch ==
    /\ \E mode \in {"buy", "sell"}, side \in {"yes", "no"}, budget \in KernelBudgets :
          Searched(mode, side, budget,
                   _max_int_quantity_for_budget(MarketDB[MarketA].b, -AMMDB[MarketA].qYes,
                                                -AMMDB[MarketA].qNo, side, budget, mode))
    /\ UNCHANGED <<dbvars, LEDGER_MODE, now, payouts_disbursed, last_trade_times, tx, lock>>

NextKernel == BudgetSearch

SpecKernel == InitKernel /\ [][NextKernel]_vars

\* the cost (buy mode) or payout (sell mode) of q contracts for the call
\* recorded in last
CostOfLast(q) ==
    cost_for_qty(MarketDB[MarketA].b, -AMMDB[MarketA].qYes, -AMMDB[MarketA].qNo,
                 last.side, last.op, q)

SearchReturned == last.via = "kernel" /\ last.error = ""

\* C11 as stated: whenever the budget search returns an integer q, q >= 1
\* and cost_for_qty(q) <= budget < cost_for_qty(q + 1).
C11_Original ==
    SearchReturned =>
        /\ last.quantity >= 1
        /\ CostOfLast(last.quantity) <= last.points
        /\ last.points < CostOfLast(last.quantity + 1)

\* C11 as amended: whenever the budget search returns an integer q, q >= 1
\* and cost_for_qty(q) <= budget, and budget < cost_for_qty(q + 1) unless
\* the doubling loop stopped at its cap and no quantity of the bracket costs
\* more than the budget: then q is the bracket's upper end, the first power
\* of two above the cap.
C11_Tight ==
    SearchReturned =>
        /\ last.quantity >= 1
        /\ CostOfLast(last.quantity) <= last.points
        /\ \/ last.points < CostOfLast(last.quantity + 1)
           \/ last.quantity > SEARCH_CAP /\ last.quantity <= 2 * SEARCH_CAP

\* the search returned a quantity that is not a power of two, tight
C11_Witness ==
    /\ SearchReturned
    /\ last.quantity \notin {1, 2, 4, 8, 16, 32, 64}
    /\ last.quantity < SEARCH_CAP
    /\ last.points < CostOfLast(last.quantity + 1)

---------------------------------------------------------------------------
(* Orders of one market served one at a time: ten contracts bought and     *)
(* sold back, a fractional quantity, an order beyond the balance, a sale   *)
(* beyond the holdings, budget-driven orders, and the settlement.          *)

OrderBuyRequests ==
    { TradeRequest("u1", MarketA, "yes", 20, 0),
      TradeRequest("u1", MarketA, "yes", 1, 0),
      TradeRequest("u1", MarketA, "no", 4000, 0),
      TradeRequest("u1", MarketA, "yes", 0, Pts(2000)),
      TradeRequest("u1", MarketA, "yes", 0, BudgetSmall),
      TradeRequest("u1", MarketA, "yes", 1, Pts(6)),
      TradeRequest("u2", MarketA, "no", 6, 0) }

OrderSellRequests ==
    { TradeRequest("u1", MarketA, "yes", 20, 0),
      TradeRequest("u1", MarketA, "yes", 0, Pts(25)),
      TradeRequest("u1", MarketA, "yes", 0, BudgetSmall),
      TradeRequest("u2", MarketA, "no", 8, 0) }

OrderSettleRequests == { <<MarketA, "yes">> }

OrderBuy ==
    \E req \in OrderBuyRequests, elapsed \in {0, MaxElapsed} :
        Serve("buy", "http", req,
              buy(DB, LEDGER_MODE, now, req.market_id, req.username,
                  req.quantity, req.side, req.points,
                  check_cooldown(last_trade_times, req.username, req.market_id, elapsed)))

OrderSell ==
    \E req \in OrderSellRequests, elapsed \in {0, MaxElapsed} :
        Serve("sell", "http", req,
              sell(DB, LEDGER_MODE, now, req.market_id, req.username,
                   req.quantity, req.side, req.points,
                   check_cooldown(last_trade_times, req.username, req.market_id, elapsed)))

OrderSettle ==
    \E s \in OrderSettleRequests :
        Serve("settle", "http", TradeRequest("", s[1], s[2], 0, 0),
              settle(DB, now, s[1], s[2]))

NextOrders ==
    \/ OrderBuy
    \/ OrderSell
    \/ OrderSettle

SpecOrders == Init /\ [][NextOrders]_vars

\* the balance the engine reads for the user of the request being served: the
\* row's, or the starting balance of the row it creates
BalanceOf(u) == IF u \in DOMAIN UserDB THEN UserDB[u].points ELSE Pts(INITIAL_USER_POINTS)

\* the quantity, in half contracts, of the buy being served, from the state
\* before it
BuyQuantity ==
    IF last'.points > 0
    THEN 2 * _max_int_quantity_for_budget(
                 MarketDB[last'.market_id].b, -AMMDB[last'.market_id].qYes,
                 -AMMDB[last'.market_id].qNo, last'.side, last'.points, "buy").qty
    ELSE QtyOrOne(last'.quantity)

BuyCost ==
    lmsr_cost(MarketDB[last'.market_id].b, -AMMDB[last'.market_id].qYes,
              -AMMDB[last'.market_id].qNo, BuyQuantity, last'.side)

\* the step serves a buy that passes every check before the balance check
BuyPriced ==
    /\ Served /\ last'.op = "buy"
    /\ last'.username \in ALLOWED_USERNAMES
    /\ last'.side \in {"yes", "no"}
    /\ last'.quantity > 0 \/ last'.points > 0
    /\ last'.error # "Too many trades in this market"
    /\ HasMarketBundle(DB, last'.market_id)
    /\ ~MarketDB[last'.market_id].resolved
    /\ is_market_visible_to_user(last'.market_id, last'.username)
    /\ last'.error # "budget insufficient for 1 contract"

\* C12: in every committed state every user's balance is >= 0, and a buy
\* whose cost exceeds the buyer's balance fails with the insufficient-funds
\* error and changes no row.
C12_NoOverdraft ==
    /\ [](\A u \in DOMAIN UserDB : UserDB[u].points >= 0)
    /\ [][(BuyPriced /\ BuyCost > BalanceOf(last'.username))
            => (last'.error = "not enough points for order" /\ UNCHANGED dbvars)]_vars

\* a quantity-driven buy failed for lack of funds after the buyer had traded
C12_Witness ==
    /\ last.op = "buy" /\ last.error = "not enough points for order"
    /\ last.points = 0
    /\ last.username \in DOMAIN UserDB
    /\ UserDB[last.username].points < Pts(INITIAL_USER_POINTS)

\* the step serves a quantity-driven sell that passes every check before the
\* holdings check
SellChecked ==
    /\ Served /\ last'.op = "sell"
    /\ last'.username \in ALLOWED_USERNAMES
    /\ last'.side \in {"yes", "no"}
    /\ last'.quantity > 0 /\ last'.points <= 0
    /\ last'.error # "Too many trades in this market"
    /\ last'.username \in DOMAIN UserDB
    /\ HasMarketBundle(DB, last'.market_id)
    /\ ~MarketDB[last'.market_id].resolved
    /\ is_market_visible_to_user(last'.market_id, last'.username)
    /\ <<last'.market_id, last'.username>> \in DOMAIN PositionsDB

\* the contracts of the side of the request the seller holds before the step
HeldOfSide ==
    IF last'.side = "yes" THEN PositionsDB[<<last'.market_id, last'.username>>].qYes
    ELSE PositionsDB[<<last'.market_id, last'.username>>].qNo

\* C13: in every committed state every position's qYes and qNo is >= 0, and
\* a sell of more contracts of a side than the seller holds fails with the
\* insufficient-holdings error of that side and changes no row.
C13_NoShortSale ==
    /\ [](\A k \in DOMAIN PositionsDB : PositionsDB[k].qYes >= 0 /\ PositionsDB[k].qNo >= 0)
    /\ [][(SellChecked /\ last'.quantity > HeldOfSide)
            => /\ last'.error = IF last'.side = "yes"
                                THEN "not enough YES contracts to sell"
                                ELSE "not enough NO contracts to sell"
               /\ UNCHANGED dbvars]_vars

\* a sell failed for lack of holdings by a seller who holds some of the side
C13_Witness ==
    /\ last.op = "sell" /\ last.error = "not enough NO contracts to sell"
    /\ PositionsDB[<<last.market_id, last.username>>].qNo > 0

\* a count of half contracts that is a whole number of contracts
Whole(q) == q % 2 = 0

\* C14: every Position.qYes, Position.qNo, AMM.qYes and AMM.qNo is a whole
\* number of contracts in every committed state, whatever quantities the
\* trades asked for.
C14_WholeContracts ==
    /\ \A k \in DOMAIN PositionsDB : Whole(PositionsDB[k].qYes) /\ Whole(PositionsDB[k].qNo)
    /\ \A m \in DOMAIN AMMDB : Whole(AMMDB[m].qYes) /\ Whole(AMMDB[m].qNo)

\* the step serves a successful sell of the quantity and side that the same
\* user bought on the same market in the request served just before it
RoundTrip ==
    /\ Served
    /\ last.op = "buy" /\ last.error = ""
    /\ last'.op = "sell" /\ last'.error = ""
    /\ last'.username = last.username
    /\ last'.market_id = last.market_id
    /\ last'.side = last.side
    /\ last'.out.quantity = last.out.quantity

\* the position and the balance a user has in database d: a user without a
\* row holds nothing and is created with the starting balance
HoldingIn(d, key) ==
    IF key \in DOMAIN d.PositionsDB THEN d.PositionsDB[key] ELSE [qYes |-> 0, qNo |-> 0]
BalanceIn(d, u) ==
    IF u \in DOMAIN d.UserDB THEN d.UserDB[u].points ELSE Pts(INITIAL_USER_POINTS)

\* C15: after a user buys q contracts of a side and at once sells q of the
\* same side on the same market, the market's AMM inventory, its collateral
\* and the user's position are what they were before the buy, and the user's
\* balance is at most the balance before the buy.
C15_RoundTrip ==
    [][RoundTrip =>
          /\ AMMDB'[last.market_id].qYes = last.before.AMMDB[last.market_id].qYes
          /\ AMMDB'[last.market_id].qNo = last.before.AMMDB[last.market_id].qNo
          /\ ClearingHouseDB'[last.market_id].points
                 = last.before.ClearingHouseDB[last.market_id].points
          /\ PositionsDB'[<<last.market_id, last.username>>]
                 = HoldingIn(last.before, <<last.market_id, last.username>>)
          /\ UserDB'[last.username].points <= BalanceIn(last.before, last.username)]_vars

\* two requests were served and the second sold ten contracts: the first
\* bought them
C15_Witness ==
    /\ now = 2
    /\ last.op = "sell" /\ last.error = ""
    /\ last.quantity = 20 /\ last.out.quantity = 20
    /\ ClearingHouseDB[last.market_id].points = 0

\* a round trip of ten YES contracts by a user with the starting balance on
\* a fresh market with the defaults
FreshRoundTrip ==
    /\ RoundTrip
    /\ last.side = "yes" /\ last.out.quantity = 20
    /\ last.before.MarketDB[last.market_id].b = DEFAULT_B
    /\ last.before.AMMDB[last.market_id]
          = [points |-> Pts(INITIAL_AMM_POINTS), qYes |-> 0, qNo |-> 0]
    /\ last.before.ClearingHouseDB[last.market_id].points = 0
    /\ BalanceIn(last.before, last.username) = Pts(INITIAL_USER_POINTS)

\* C16 as stated: on a fresh market with defaults a user who buys 10 YES and
\* then sells 10 YES ends strictly below the starting 1000: the payout of
\* the sell is strictly smaller than the cost of the buy.
C16_Original ==
    [][FreshRoundTrip =>
          /\ UserDB'[last.username].points < Pts(INITIAL_USER_POINTS)
          /\ last'.out.order_cost < last.out.order_cost]_vars

\* C16 as amended: on a fresh market with defaults a user who buys 10 YES
\* and then sells 10 YES ends with exactly the starting 1000: the payout of
\* the sell equals the cost of the buy, there is no spread.
C16_NoSpread ==
    [][FreshRoundTrip =>
          /\ UserDB'[last.username].points = Pts(INITIAL_USER_POINTS)
          /\ last'.out.order_cost = last.out.order_cost
          /\ last'.out.order_cost > 0]_vars

\* the first two requests were the buy and the sell of ten YES contracts
C16_Witness ==
    /\ now = 2
    /\ last.op = "sell" /\ last.error = ""
    /\ last.side = "yes" /\ last.out.quantity = 20
    /\ last.out.order_cost > Pts(5)
    /\ last.out.new_balance = Pts(INITIAL_USER_POINTS)
    /\ AMMDB[last.market_id] = [points |-> Pts(INITIAL_AMM_POINTS), qYes |-> 0, qNo |-> 0]

\* C17: when the visibility predicate rejects the (market, user) of a buy or
\* a sell, the request fails with the access-denied error, no row is changed
\* and the session has inserted no row by then: its rows are the database's.
C17_DeniedBeforeMutation ==
    [][(Served /\ last'.op \in {"buy", "sell"}
          /\ last'.error = "You cannot trade this market")
          => (UNCHANGED dbvars /\ last'.sess = DB)]_vars

\* C18: every market has one market row, one AMM row and one clearing-house
\* row; a create call for a new name makes the three rows with the b of the
\* call, the initial reserve, no inventory and no collateral, and a create
\* call for an existing name, whatever its b, changes no row: the market's
\* b, AMM reserve, AMM inventory and collateral stay as they are.
C18_GetOrCreate ==
    /\ [](DOMAIN AMMDB = DOMAIN MarketDB /\ DOMAIN ClearingHouseDB = DOMAIN MarketDB)
    /\ [][(Served /\ last'.op = "create") =>
            /\ last'.error = ""
            /\ DOMAIN MarketDB' = DOMAIN MarketDB \cup {last'.market_id}
            /\ \A m \in DOMAIN MarketDB :
                   /\ MarketDB'[m] = MarketDB[m]
                   /\ AMMDB'[m] = AMMDB[m]
                   /\ ClearingHouseDB'[m] = ClearingHouseDB[m]
            /\ last'.market_id \notin DOMAIN MarketDB =>
                   /\ MarketDB'[last'.market_id].b = last'.points
                   /\ ~MarketDB'[last'.market_id].resolved
                   /\ AMMDB'[last'.market_id]
                         = [points |-> Pts(INITIAL_AMM_POINTS), qYes |-> 0, qNo |-> 0]
                   /\ ClearingHouseDB'[last'.market_id] = [points |-> 0]
            /\ UNCHANGED <<UserDB, PositionsDB, LedgerDB>>]_vars

\* create was called with another b for a market that has been traded
C18_Witness ==
    /\ last.op = "create"
    /\ last.market_id \in DOMAIN last.before.MarketDB
    /\ MarketDB[last.market_id].b # last.points
    /\ AMMDB[last.market_id].qYes # 0
    /\ ClearingHouseDB[last.market_id].points > 0

\* C19: a successful settlement changes only the settled market's resolved,
\* outcome and settled_at fields and the balances of the users who hold a
\* position in it: every AMM row, clearing-house row and position row, the
\* market's b and amm_points, the other markets, the ledger and the other
\* users are the same after it as before.
C19_SettleFrame ==
    [][(Served /\ last'.op = "settle" /\ last'.error = "") =>
          /\ AMMDB' = AMMDB
          /\ ClearingHouseDB' = ClearingHouseDB
          /\ PositionsDB' = PositionsDB
          /\ LedgerDB' = LedgerDB
          /\ MarketDB' = [MarketDB EXCEPT
                            ![last'.market_id].resolved = MarketDB'[last'.market_id].resolved,
                            ![last'.market_id].outcome = MarketDB'[last'.market_id].outcome,
                            ![last'.market_id].settled_at = MarketDB'[last'.market_id].settled_at]
          /\ DOMAIN UserDB' = DOMAIN UserDB
          /\ \A u \in DOMAIN UserDB :
                 <<last'.market_id, u>> \notin DOMAIN PositionsDB => UserDB'[u] = UserDB[u]]_vars

\* a market with collateral, outstanding contracts and a holder was settled
\* while another user held no position in it
C19_Witness ==
    /\ last.op = "settle" /\ last.error = ""
    /\ ClearingHouseDB[last.market_id].points > 0
    /\ AMMDB[last.market_id].qYes < 0 \/ AMMDB[last.market_id].qNo < 0
    /\ \E u \in DOMAIN UserDB : <<last.market_id, u>> \in DOMAIN PositionsDB
    /\ \E u \in DOMAIN UserDB : <<last.market_id, u>> \notin DOMAIN PositionsDB

\* the ledger rows the step appends
Appended == SubSeq(LedgerDB', Len(LedgerDB) + 1, Len(LedgerDB'))

\* the step changes the collateral of the market of the request it serves
MovedCollateral ==
    ClearingHouseDB'[last'.market_id].points # ClearingHouseDB[last'.market_id].points

\* the rows of a trade in full mode: the user's, the AMM's with the opposite
\* delta and, when collateral moved, an AMM row and a clearing-house row with
\* opposite non-zero deltas
FullRows(rows) ==
    /\ Len(rows) = IF MovedCollateral THEN 4 ELSE 2
    /\ rows[1].user_id = last'.username
    /\ rows[2].user_id = SYSTEM_AMM_USERNAME
    /\ rows[2].delta = -rows[1].delta
    /\ MovedCollateral =>
          /\ {rows[3].user_id, rows[4].user_id} = {SYSTEM_AMM_USERNAME, SYSTEM_CH_USERNAME}
          /\ rows[3].user_id # rows[4].user_id
          /\ rows[3].reason = "clearing house" /\ rows[4].reason = "clearing house"
          /\ rows[3].delta = -rows[4].delta /\ rows[3].delta # 0

\* C20: no step changes or removes a ledger row; a successful trade appends
\* no row in off mode, one row of the trading user in light mode, and in
\* full mode that row, the AMM counterparty row and, exactly when the trade
\* moved collateral, an AMM row and a clearing-house row of opposite delta;
\* a failed trade, a settlement and a create call append nothing.
C20_LedgerRows ==
    [][/\ Len(LedgerDB') >= Len(LedgerDB)
       /\ SubSeq(LedgerDB', 1, Len(LedgerDB)) = LedgerDB
       /\ (Served /\ (last'.op \notin {"buy", "sell"} \/ last'.error # ""))
             => Appended = <<>>
       /\ (Served /\ last'.op \in {"buy", "sell"} /\ last'.error = "") =>
             /\ LEDGER_MODE = "off" => Appended = <<>>
             /\ LEDGER_MODE = "light" =>
                    Len(Appended) = 1 /\ Appended[1].user_id = last'.username
             /\ LEDGER_MODE = "full" => FullRows(Appended)]_vars

\* in full mode a sell that released collateral wrote its four rows after a
\* trade that moved none had written two
C20_Witness ==
    /\ LEDGER_MODE = "full"
    /\ last.op = "sell" /\ last.error = ""
    /\ Len(LedgerDB) = Len(last.before.LedgerDB) + 4
    /\ \E i \in 1 .. Len(LedgerDB) - 1 :
          /\ LedgerDB[i].reason = "trade buy" /\ LedgerDB[i + 1].reason = "trade sell"
          /\ i + 2 <= Len(LedgerDB) => LedgerDB[i + 2].reason # "clearing house"


\* the step serves a budget-driven buy or sell that passes every check made
\* before the budget search
BudgetOrderSized ==
    /\ Served /\ last'.op \in {"buy", "sell"} /\ last'.via = "http"
    /\ last'.username \in ALLOWED_USERNAMES
    /\ last'.side \in {"yes", "no"}
    /\ last'.points > 0
    /\ last'.error # "Too many trades in this market"
    /\ HasMarketBundle(DB, last'.market_id)
    /\ ~MarketDB[last'.market_id].resolved
    /\ is_market_visible_to_user(last'.market_id, last'.username)
    /\ last'.op = "sell" => /\ last'.username \in DOMAIN UserDB
                            /\ <<last'.market_id, last'.username>> \in DOMAIN PositionsDB

\* what one contract of the side costs the buyer, or pays the seller, in the
\* state before the step
OneContract ==
    cost_for_qty(MarketDB[last'.market_id].b, -AMMDB[last'.market_id].qYes,
                 -AMMDB[last'.market_id].qNo, last'.side, last'.op, 1)

\* C21: a budget-driven buy or sell whose budget is smaller than the cost
\* (for a sell: the payout) of one contract fails with the budget-insufficient
\* error and changes no row, and no buy or sell succeeds with quantity 0.
C21_BudgetBelowOne ==
    [][/\ (BudgetOrderSized /\ last'.points < OneContract)
            => (last'.error = "budget insufficient for 1 contract" /\ UNCHANGED dbvars)
       /\ (Served /\ last'.op \in {"buy", "sell"} /\ last'.error = "")
            => last'.out.quantity > 0]_vars

\* a holder's budget-driven sell failed because the budget pays for no contract
C21_Witness ==
    /\ last.op = "sell" /\ last.points = BudgetSmall
    /\ last.error = "budget insufficient for 1 contract"
    /\ PositionsDB[<<last.market_id, last.username>>].qYes >= 2

\* C22: while only buys and sells run (no settlement has begun), on any mix
\* of users and markets, no trade waits in a cycle of row-lock waits.
C22_NoCircularWait ==
    (\A t \in Begun : tx[t].op \in {"buy", "sell"}) => \A t \in Txns : ~Deadlocked(t)

---------------------------------------------------------------------------
(* A market with the default sizing after heavy trading.  Ten users have   *)
(* each spent their starting balance on 1000 NO contracts, an eleventh has *)
(* then bought 10900 YES contracts (cheap while as many NO are             *)
(* outstanding), and eight of the ten have sold their NO contracts back.   *)
(* The state is computed by serving these orders one after another through *)
(* Market.buy and Market.sell; the last orders are left to the actions.    *)

Order(op, u, side, quantity) ==
    [op |-> op, username |-> u, side |-> side, quantity |-> quantity]

Helpers == <<"h1", "h2", "h3", "h4", "h5", "h6", "h7", "h8", "h9", "h10">>
HelperLot == 2000          \* 1000 contracts
WhaleLot == 21800          \* 10900 contracts

StockingOrders ==
    [i \in 1..10 |-> Order("buy", Helpers[i], "no", HelperLot)]
    \o <<Order("buy", "u1", "yes", WhaleLot)>>
    \o [i \in 1..8 |-> Order("sell", Helpers[i], "no", HelperLot)]

\* the database after the orders have been served in sequence, each in its
\* own session: an order that fails is rolled back
RECURSIVE RunOrders(_, _, _)
RunOrders(d, m, orders) ==
    IF orders = <<>> \/ m \notin DOMAIN d.MarketDB THEN d
    ELSE LET o == Head(orders)
         IN RunOrders(IF o.op = "buy"
                      THEN Market_buy(d, "off", 0, m, o.username, o.quantity, o.side).db
                      ELSE Market_sell(d, "off", 0, m, o.username, o.quantity, o.side).db,
                      m, Tail(orders))

Stocked == RunOrders(Provisioned, MarketA, StockingOrders)

ReserveOrders ==
    { Order("sell", "h9", "no", HelperLot),
      Order("sell", "h10", "no", HelperLot),
      Order("buy", "h9", "no", 2),
      Order("buy", "h11", "yes", 200),
      Order("sell", "u1", "yes", WhaleLot),
      Order("sell", "u1", "yes", WhaleLot \div 2),
      Order("buy", "u1", "yes", 20) }

InitReserve ==
    /\ UserDB = Stocked.UserDB
    /\ MarketDB = Stocked.MarketDB
    /\ AMMDB = Stocked.AMMDB
    /\ ClearingHouseDB = Stocked.ClearingHouseDB
    /\ PositionsDB = Stocked.PositionsDB
    /\ LedgerDB = Stocked.LedgerDB
    /\ LEDGER_MODE = "off"
    /\ now = 0
    /\ last = NoRequest
    /\ payouts_disbursed = 0
    /\ last_trade_times = {}
    /\ tx = [t \in Txns |-> IdleTx]
    /\ lock = <<>>

ReserveBuy ==
    \E o \in {r \in ReserveOrders : r.op = "buy"} :
        Serve("buy", "wrapper", TradeRequest(o.username, MarketA, o.side, o.quantity, 0),
              Market_buy(DB, LEDGER_MODE, now, MarketA, o.username, o.quantity, o.side))

ReserveSell ==
    \E o \in {r \in ReserveOrders : r.op = "sell"} :
        Serve("sell", "wrapper", TradeRequest(o.username, MarketA, o.side, o.quantity, 0),
              Market_sell(DB, LEDGER_MODE, now, MarketA, o.username, o.quantity, o.side))

NextReserve ==
    \/ ReserveBuy
    \/ ReserveSell

SpecReserve == InitReserve /\ [][NextReserve]_vars

\* the step serves a sell of contracts the seller holds
SellOfHeld ==
    /\ Served /\ last'.op = "sell"
    /\ <<last'.market_id, last'.username>> \in DOMAIN PositionsDB
    /\ last'.quantity > 0
    /\ HeldOfSide >= last'.quantity

\* C23: from markets with the default sizing and users funded by their
\* starting balances alone, no sell of contracts the seller holds fails with
\* the AMM-insolvent error.
C23_NoInsolventSell ==
    [][SellOfHeld => last'.error # "AMM does not have enough points to pay this sell"]_vars

\* C24: from markets with the default sizing, no buy fails with the
\* collateral-shortfall error: once the cost has been added, the reserve
\* covers the top-up of the collateral, and it is never negative afterwards.
C24_CollateralCovered ==
    /\ [](\A m \in DOMAIN AMMDB : AMMDB[m].points >= 0)
    /\ [][(Served /\ last'.op = "buy")
            => last'.error # "AMM lack points for required collateral"]_vars

\* a buy was served that raised the collateral beyond the initial reserve
C24_Witness ==
    /\ last.op = "buy" /\ last.error = ""
    /\ ClearingHouseDB[last.market_id].points
           > last.before.ClearingHouseDB[last.market_id].points
    /\ ClearingHouseDB[last.market_id].points > Pts(INITIAL_AMM_POINTS)

\* C25: whatever buys, sells and settlements have been served, neither
\* consistency check fires: no buy finds the clearing house above the
\* requirement after the trade, no sell finds it below.
C25_ChecksSilent ==
    [][Served =>
          /\ last'.error # "clearing house has more points than required after minting"
          /\ last'.error # "collateral increased after sell; state inconsistent"]_vars

\* a buy of the side with fewer contracts outstanding was served: the
\* clearing house already held the requirement and nothing was topped up
C25_Witness ==
    /\ last.op = "buy" /\ last.error = ""
    /\ ClearingHouseDB[last.market_id].points > 0
    /\ ClearingHouseDB[last.market_id].points
           = last.before.ClearingHouseDB[last.market_id].points

\* what the settlement being served credits to the users
SettlementPaid == SumPoints(UserDB') - SumPoints(UserDB)

\* C26: a settlement pays out, in total, at most the collateral the clearing
\* house holds for the market when it is settled, for either outcome.
C26_PaidFromCollateral ==
    [][(Served /\ last'.op = "settle" /\ last'.error = "")
          => SettlementPaid <= ClearingHouseDB[last'.market_id].points]_vars

\* a settlement has paid winners while the losing side had holders too
C26_Witness ==
    /\ last.op = "settle" /\ last.error = ""
    /\ payouts_disbursed > 0
    /\ \E k \in PositionsOf(DB, last.market_id) :
          SettlementPayout_swapped(PositionsDB[k], last.side) > 0

\* the contracts of a side that the users hold on market m
HeldYes(m) == SumOver(PositionsOf(DB, m), [k \in DOMAIN PositionsDB |-> PositionsDB[k].qYes])
HeldNo(m) == SumOver(PositionsOf(DB, m), [k \in DOMAIN PositionsDB |-> PositionsDB[k].qNo])

\* C27: in every committed state, for every market and each side, the
\* positions of the users add up to the outstanding count -AMM.q<side>, and
\* AMM.qYes and AMM.qNo are <= 0.
C27_Outstanding ==
    \A m \in DOMAIN AMMDB :
        /\ HeldYes(m) = -AMMDB[m].qYes
        /\ HeldNo(m) = -AMMDB[m].qNo
        /\ AMMDB[m].qYes <= 0
        /\ AMMDB[m].qNo <= 0

\* two users hold contracts of one market after one of them has sold some
C27_Witness ==
    /\ last.op = "sell" /\ last.error = ""
    /\ Cardinality({k \in PositionsOf(DB, last.market_id) :
                       PositionsDB[k].qYes + PositionsDB[k].qNo > 0}) >= 2

\* the trades and the settlements begun on market m
TradesOn(m) == {t \in Begun : tx[t].op \in {"buy", "sell"} /\ tx[t].market_id = m}
SettlementsOf(m) == {t \in Begun : tx[t].op = "settle" /\ tx[t].market_id = m}

\* the errors a trade of the model's requests can end with when it is served
\* alone
TradeErrors ==
    {"user not found", "no position for this market", "not enough points for order",
     "not enough YES contracts to sell", "not enough NO contracts to sell"}

\* a trade on a market whose settlement has been requested ends committed,
\* or refused because the market is settled, or with an error of its own
CommitsOrSettled(m) ==
    \A t \in TradesOn(m) :
        (Ended(t) /\ SettlementsOf(m) # {})
            => \/ tx[t].pc = "done"
               \/ tx[t].error = "Market is settled"
               \/ tx[t].error \in TradeErrors

\* what the committed state owes user u for market m once it is settled
WinningsOf(m, u) ==
    IF <<m, u>> \in DOMAIN PositionsDB /\ MarketDB[m].resolved
    THEN PayoutPoints(SettlementPayout(PositionsDB[<<m, u>>],
                                       IF MarketDB[m].outcome = "True" THEN "yes" ELSE "no"))
    ELSE 0

\* once every request of a run on market m alone has ended with m settled,
\* each balance is the starting balance, less the costs and plus the payouts
\* of the committed trades, plus one point per winning contract of the
\* committed position
PaidInFull(m) ==
    (/\ \A t \in Begun : Ended(t) /\ tx[t].market_id = m
     /\ MarketDB[m].resolved)
        => \A u \in DOMAIN UserDB :
              UserDB[u].points
                  = Pts(INITIAL_USER_POINTS)
                    - SumOver({t \in Begun : tx[t].username = u}, [t \in Txns |-> Charged(t)])
                    + WinningsOf(m, u)

\* no position of a settled market changes or appears
FrozenPositions ==
    [][\A m \in DOMAIN MarketDB :
          MarketDB[m].resolved
              => /\ PositionsOf([PositionsDB |-> PositionsDB'], m) = PositionsOf(DB, m)
                 /\ \A k \in PositionsOf(DB, m) : PositionsDB'[k] = PositionsDB[k]]_vars

\* C28: a trade that runs concurrently with the settlement of its market
\* either commits before the settlement reads the positions and is paid by
\* it, or fails with the market-settled error; every committed winning
\* contract is paid.
C28_AtomicWithSettlement ==
    \A m \in DOMAIN MarketDB : CommitsOrSettled(m) /\ PaidInFull(m)

C28_PaidInFull == \A m \in DOMAIN MarketDB : PaidInFull(m)

\* C29: a buy given a positive budget trades the quantity the budget search
\* computes from the budget, whatever quantity came with it; the quantity
\* supplied is traded only when the budget is absent or not positive.
C29_BudgetDecides ==
    [][(Served /\ last'.op = "buy" /\ last'.error = "")
          => /\ last'.out.quantity = BuyQuantity
             /\ BuyCost = last'.out.order_cost
             /\ last'.points > 0 => BuyCost <= last'.points]_vars

\* a buy given half a contract and a budget that pays for ten bought ten
C29_Witness ==
    /\ last.op = "buy" /\ last.error = ""
    /\ last.quantity = 1 /\ last.points = Pts(6)
    /\ last.out.quantity = 20

\* what the budget search returns, in sell mode, for the sell being served
SellSearch ==
    _max_int_quantity_for_budget(MarketDB[last'.market_id].b, -AMMDB[last'.market_id].qYes,
                                 -AMMDB[last'.market_id].qNo, last'.side, last'.points, "sell")

\* min(q_budget, floor(held)) in half contracts, for the search result found
ClampedQuantity(found) == 2 * Min(found.qty, Floor(HeldOfSide) \div 2)

\* what a budget-driven sell does when the search returns found, a quantity
BudgetSellClamped(found) ==
    found.error = "" =>
        /\ last'.error \notin {"not enough YES contracts to sell",
                               "not enough NO contracts to sell"}
        /\ ClampedQuantity(found) > 0
              => (last'.error = "" /\ last'.out.quantity = ClampedQuantity(found))
        /\ ClampedQuantity(found) = 0
              => (last'.error = "quantity must be > 0" /\ UNCHANGED dbvars)

\* C30: a budget-driven sell trades min(q_budget, floor(held contracts of the
\* side)), q_budget being the budget search's result in sell mode; it never
\* fails for insufficient holdings, and a seller without a whole contract of
\* the side gets an error and no row changes.
C30_SellClamped ==
    [][(BudgetOrderSized /\ last'.op = "sell")
          => \A found \in {SellSearch} : BudgetSellClamped(found)]_vars

\* a sell with a budget beyond the payout of the ten contracts held sold ten
C30_Witness ==
    /\ last.op = "sell" /\ last.error = ""
    /\ last.points = Pts(25)
    /\ last.out.quantity = 20
    /\ last.out.order_cost < last.points
    /\ PositionsDB[<<last.market_id, last.username>>].qYes = 0

\* a budget-driven sell by a holder of no contract of the side was refused
C30_NothingToSell ==
    /\ last.op = "sell" /\ last.points = Pts(25)
    /\ last.error = "quantity must be > 0"

---------------------------------------------------------------------------
(* User rows on first reference, over the interleavings of SpecConc.       *)

\* the commit of trade t
CommitOf(t) == tx[t].pc = "commit" /\ tx'[t].pc = "done"

\* the balance the commit of t writes for its user, from the balance it read
BalanceAfter(t, balance) ==
    IF tx[t].op = "buy" THEN balance - tx'[t].out.order_cost
    ELSE balance + tx'[t].out.order_cost

\* C31: a buy naming a username without a user row creates exactly one row
\* for it, with the starting balance 1000 less the cost of the trade; a sell
\* naming such a username fails with user not found and creates no row; in
\* no interleaving of first references does a username get a second row, a
\* row disappear, or a trade on an existing row start again from the
\* starting balance instead of the balance it read.
C31_CreatedOnFirstReference ==
    [][/\ DOMAIN UserDB \subseteq DOMAIN UserDB'
       /\ \A t \in Txns :
             LET u == tx[t].username IN
             /\ (CommitOf(t) /\ u \notin DOMAIN UserDB) =>
                   /\ tx[t].op = "buy"
                   /\ DOMAIN UserDB' = DOMAIN UserDB \cup {u}
                   /\ UserDB'[u].points = BalanceAfter(t, Pts(INITIAL_USER_POINTS))
                   /\ \A o \in DOMAIN UserDB : UserDB'[o] = UserDB[o]
             /\ (CommitOf(t) /\ u \in DOMAIN UserDB) =>
                   /\ tx[t].user_row # <<>>
                   /\ DOMAIN UserDB' = DOMAIN UserDB
                   /\ UserDB'[u].points = BalanceAfter(t, tx[t].user_row[1].points)
             /\ (tx[t].op = "sell" /\ tx[t].pc = "user" /\ tx'[t].pc # "user"
                   /\ u \notin DOMAIN UserDB) =>
                   /\ tx'[t].pc = "failed"
                   /\ tx'[t].error = "user not found"
                   /\ UNCHANGED dbvars]_vars

\* two overlapping buys of one new username have committed, the first created
\* the row and the second was charged on it, and a sell naming the username
\* before the row existed has failed
C31_Witness ==
    \E r, s, t \in Txns :
        /\ tx[r].op = "sell" /\ tx[r].pc = "failed" /\ tx[r].error = "user not found"
        /\ tx[s].op = "buy" /\ tx[s].pc = "done" /\ tx[s].user_row = <<>>
        /\ tx[t].op = "buy" /\ tx[t].pc = "done" /\ tx[t].user_row # <<>>
        /\ tx[t].overlapped
        /\ tx[s].username = tx[r].username /\ tx[t].username = tx[r].username
        /\ UserDB[tx[s].username].points
              = Pts(INITIAL_USER_POINTS) - tx[s].out.order_cost - tx[t].out.order_cost

---------------------------------------------------------------------------
(* The frame of a trade, over the requests of Spec.                        *)

\* the rows of table f other than those keyed in own are the rows of g, and g
\* has no row that f lacks except those keyed in own
SameExcept(f, g, own) ==
    /\ DOMAIN g \subseteq DOMAIN f \cup own
    /\ \A k \in DOMAIN f \ own : k \in DOMAIN g /\ g[k] = f[k]

\* the reserved rows of the system actors, which hold no points
SystemUsernames == {SYSTEM_AMM_USERNAME, SYSTEM_CH_USERNAME}

\* C32: a successful buy or sell by user u on market m leaves every other
\* user's balance, every other position and every other market's market,
\* AMM and clearing-house rows as they were; the only rows it adds are the
\* row of u, the position (m, u) and the empty rows of the system actors.
C32_Frame ==
    [][(Served /\ last'.op \in {"buy", "sell"} /\ last'.error = "") =>
          LET u == last'.username
              m == last'.market_id
          IN /\ SameExcept(UserDB, UserDB', {u} \cup SystemUsernames)
             /\ \A o \in SystemUsernames \ {u} :
                   o \in DOMAIN UserDB' =>
                      UserDB'[o].points = IF o \in DOMAIN UserDB THEN UserDB[o].points ELSE 0
             /\ SameExcept(PositionsDB, PositionsDB', {<<m, u>>})
             /\ SameExcept(MarketDB, MarketDB', {m}) /\ m \in DOMAIN MarketDB
             /\ SameExcept(AMMDB, AMMDB', {m}) /\ m \in DOMAIN AMMDB
             /\ SameExcept(ClearingHouseDB, ClearingHouseDB', {m})
             /\ m \in DOMAIN ClearingHouseDB]_vars

\* a trade was served and changed its own rows while another user held a
\* position in another market
C32_Witness ==
    /\ last.op \in {"buy", "sell"} /\ last.error = ""
    /\ last.username \in DOMAIN last.before.UserDB
    /\ UserDB[last.username] # last.before.UserDB[last.username]
    /\ AMMDB[last.market_id] # last.before.AMMDB[last.market_id]
    /\ \E k \in DOMAIN PositionsDB :
          /\ k[1] # last.market_id /\ k[2] # last.username
          /\ PositionsDB[k].qYes + PositionsDB[k].qNo > 0

---------------------------------------------------------------------------
(* The reserve as the market row shows it.                                 *)

\* C33: in every committed state each market has an AMM row, and the
\* amm_points of the market row equals the points of that AMM row, whatever
\* trades and collateral transfers have been committed.
C33_ReserveMirrored ==
    \A m \in DOMAIN MarketDB :
        /\ m \in DOMAIN AMMDB
        /\ MarketDB[m].amm_points = AMMDB[m].points

\* a sell was served that paid the seller from the reserve and took released
\* collateral back into it, after a buy that had moved collateral out
C33_Witness ==
    /\ last.op = "sell" /\ last.error = ""
    /\ ClearingHouseDB[last.market_id].points
          < last.before.ClearingHouseDB[last.market_id].points
    /\ AMMDB[last.market_id].points # last.before.AMMDB[last.market_id].points
    /\ AMMDB[last.market_id].points
          # last.before.AMMDB[last.market_id].points - last.out.order_cost

---------------------------------------------------------------------------
(* The preview of a buy next to the buy: main.py 325-402 and 423-479.       *)
(* A request carries quantity (half contracts, 0 when absent) and points   *)
(* (0 when absent); the same request is previewed and then bought.         *)

\* round(x, 2) of a count of points
Round2(x) == ((x + Scale \div 200) \div (Scale \div 100)) * (Scale \div 100)

\* main.py 371-402: the reply for qty half contracts, from the rows read
PreviewOf(d, market_id, qty, yesOrNo) ==
    LET b == d.MarketDB[market_id].b
        q_yes_total == -d.AMMDB[market_id].qYes
        q_no_total == -d.AMMDB[market_id].qNo
    IN [error |-> "", db |-> d, sess |-> d,
        out |-> [order_cost |-> Round2(lmsr_cost(b, q_yes_total, q_no_total, qty, yesOrNo)),
                 payout |-> qty,
                 quantity |-> qty,
                 new_price |-> IF yesOrNo = "yes"
                               THEN lmsr_yes_price(b, q_yes_total + qty, q_no_total)
                               ELSE lmsr_yes_price(b, q_yes_total, q_no_total + qty),
                 current_price |-> lmsr_yes_price(b, q_yes_total, q_no_total)]]

\* main.py 371-382: the quantity the preview prices, from the budget search's
\* result found when no positive quantity is given
PreviewSized(d, market_id, quantity, yesOrNo, found) ==
    IF quantity > 0 THEN PreviewOf(d, market_id, quantity, yesOrNo)
    ELSE IF found.error # "" THEN Reject(d, found.error)
    ELSE PreviewOf(d, market_id, 2 * found.qty, yesOrNo)

\* main.py 325-402: nothing is added to the session and nothing is committed
preview(d, market_id, username, quantity, yesOrNo, points) ==
    IF username \notin ALLOWED_USERNAMES THEN Reject(d, "User not allowed")
    ELSE IF yesOrNo \notin {"yes", "no"} THEN Reject(d, "yesOrNo must be 'yes' or 'no'")
    ELSE IF quantity <= 0 /\ points <= 0 THEN Reject(d, "quantity or points is required")
    ELSE IF market_id \notin DOMAIN d.MarketDB THEN Reject(d, "Market not found")
    ELSE IF d.MarketDB[market_id].resolved THEN Reject(d, "Market is settled")
    ELSE IF ~is_market_visible_to_user(market_id, username)
    THEN Reject(d, "You cannot preview this market")
    ELSE IF market_id \notin DOMAIN d.AMMDB THEN Reject(d, "AMM row missing")
    ELSE PreviewSized(d, market_id, quantity, yesOrNo,
                      IF quantity > 0 THEN [error |-> "", qty |-> 0]
                      ELSE _max_int_quantity_for_budget(
                               d.MarketDB[market_id].b, -d.AMMDB[market_id].qYes,
                               -d.AMMDB[market_id].qNo, yesOrNo, points, "buy"))

PreviewRequests ==
    { TradeRequest("u1", MarketA, "yes", 2, 0),
      TradeRequest("u1", MarketA, "yes", 0, Pts(6)),
      TradeRequest("u1", MarketA, "yes", 2, Pts(6)),
      TradeRequest("u2", MarketA, "no", 8, 0),
      TradeRequest("u2", MarketA, "no", 0, BudgetSmall),
      TradeRequest("u1", MarketA, "maybe", 2, 0),
      TradeRequest("u1", MarketA, "yes", 0, 0),
      TradeRequest("u1", MarketB, "yes", 2, 0),
      TradeRequest("u3", MarketA, "yes", 2, 0) }

InitPreview ==
    /\ UserDB = Provisioned.UserDB
    /\ MarketDB = Provisioned.MarketDB
    /\ AMMDB = Provisioned.AMMDB
    /\ ClearingHouseDB = Provisioned.ClearingHouseDB
    /\ PositionsDB = Provisioned.PositionsDB
    /\ LedgerDB = Provisioned.LedgerDB
    /\ LEDGER_MODE = "off"
    /\ now = 0
    /\ last = NoRequest
    /\ payouts_disbursed = 0
    /\ last_trade_times = {}
    /\ tx = [t \in Txns |-> IdleTx]
    /\ lock = <<>>

HttpPreview ==
    \E req \in PreviewRequests :
        Serve("preview", "http", req,
              preview(DB, req.market_id, req.username, req.quantity, req.side, req.points))

PreviewedBuy ==
    \E req \in PreviewRequests, elapsed \in {0, MaxElapsed} :
        Serve("buy", "http", req,
              buy(DB, LEDGER_MODE, now, req.market_id, req.username,
                  req.quantity, req.side, req.points,
                  check_cooldown(last_trade_times, req.username, req.market_id, elapsed)))

NextPreview ==
    \/ HttpPreview
    \/ PreviewedBuy

SpecPreview == InitPreview /\ [][NextPreview]_vars

\* the buy being served has the inputs of the preview answered just before it
BuyOfPreviewed ==
    /\ last.op = "preview" /\ last.error = ""
    /\ Served /\ last'.op = "buy" /\ last'.error = ""
    /\ last'.username = last.username /\ last'.market_id = last.market_id
    /\ last'.side = last.side /\ last'.quantity = last.quantity
    /\ last'.points = last.points

\* a preview changes no table and starts no cooldown
PreviewReadOnly ==
    (Served /\ last'.op = "preview") => UNCHANGED <<dbvars, last_trade_times>>

\* C34: a buy served right after a preview of the same request, on the state
\* the preview read, executes the quantity the preview reported, also when
\* the request gives both a positive quantity and a positive points budget;
\* and a preview changes no persisted state.
C34_PreviewMatchesBuy ==
    [][/\ PreviewReadOnly
       /\ BuyOfPreviewed => last'.out.quantity = last.out.quantity]_vars

\* a preview changes no persisted state
C34_PreviewReadOnly == [][PreviewReadOnly]_vars

\* a buy served right after a preview of the same request executes the
\* quantity the preview reported when the request gives a quantity or a
\* points budget but not both
C34_SameWhenOneGiven ==
    [][(BuyOfPreviewed /\ ~(last.quantity > 0 /\ last.points > 0))
          => last'.out.quantity = last.out.quantity]_vars

\* with both given, the preview reports the quantity asked and the buy
\* executes the quantity the points budget affords
C34_BothGiven ==
    [][(BuyOfPreviewed /\ last.quantity > 0 /\ last.points > 0)
          => /\ last.out.quantity = last.quantity
             /\ last'.out.quantity > last.out.quantity]_vars

=============================================================================
